---------------------------- MODULE Spec2Model ----------------------------
(***************************************************************************)
(* Ph_Care subdomain-takeover scanner: the scan pipeline of                *)
(* lib/scanner (identifyProvider, checkFingerprint, classifyRisk,          *)
(* determineSecurityIssue, dnsLookup, httpProbe, scanSubdomain,            *)
(* parseDomainsFromText), the configuration API (GET and PUT of the two    *)
(* catalogs) and the dashboard's handleScan (submission, stream reader).   *)
(*                                                                         *)
(* Strings are TLA+ strings; includes, toLowerCase and the regular         *)
(* expression replacements are computed character by character.            *)
(***************************************************************************)
EXTENDS Integers, Sequences, FiniteSets, TLC

(***************************************************************************)
(* String primitives of the JavaScript runtime used by the scanner.        *)
(***************************************************************************)
UpperLetters == "ABCDEFGHIJKLMNOPQRSTUVWXYZ"
LowerLetters == "abcdefghijklmnopqrstuvwxyz"

\* String.prototype.includes
includes(s, sub) ==
    \E i \in 0..(Len(s) - Len(sub)) : SubSeq(s, i + 1, i + Len(sub)) = sub

\* one character of String.prototype.toLowerCase
LowerOf ==
    [ c \in { SubSeq(UpperLetters, i, i) : i \in 1..Len(UpperLetters) } |->
        LET i == CHOOSE j \in 1..Len(UpperLetters) : SubSeq(UpperLetters, j, j) = c
        IN  SubSeq(LowerLetters, i, i) ]
LowerChar(c) == IF c \in DOMAIN LowerOf THEN LowerOf[c] ELSE c

RECURSIVE toLowerCase(_)
toLowerCase(s) ==
    IF s = "" THEN ""
    ELSE LowerChar(SubSeq(s, 1, 1)) \o toLowerCase(SubSeq(s, 2, Len(s)))

\* s.replace(/\.$/, "")
stripTrailingDot(s) ==
    IF Len(s) > 0 /\ SubSeq(s, Len(s), Len(s)) = "."
    THEN SubSeq(s, 1, Len(s) - 1)
    ELSE s

\* text.slice(0, n)
sliceTo(s, n) == IF Len(s) > n THEN SubSeq(s, 1, n) ELSE s

\* the first of a set of indices of a sequence, 0 when the set is empty
FirstIndex(hits) ==
    IF hits = {} THEN 0 ELSE CHOOSE i \in hits : \A j \in hits : i <= j

\* Array.prototype.join
RECURSIVE join(_, _)
join(strs, sep) ==
    IF Len(strs) = 0 THEN ""
    ELSE IF Len(strs) = 1 THEN strs[1]
    ELSE LET h == Len(strs) \div 2
         IN  join(SubSeq(strs, 1, h), sep) \o sep \o join(SubSeq(strs, h + 1, Len(strs)), sep)

\* the first index of character c in s, 0 when s has none
indexOf(s, c) == FirstIndex({ i \in 1..Len(s) : SubSeq(s, i, i) = c })

\* s.split(c) on a one-character separator
RECURSIVE split(_, _)
split(s, c) ==
    LET at == { i \in 1..Len(s) : SubSeq(s, i, i) = c }
        m == CHOOSE i \in at : Cardinality({ j \in at : j < i }) = Cardinality(at) \div 2
    IN  IF at = {} THEN <<s>>
        ELSE split(SubSeq(s, 1, m - 1), c) \o split(SubSeq(s, m + 1, Len(s)), c)

\* s.split(/\r?\n/): a carriage return right before a line feed goes with it
splitLines(s) ==
    LET pieces == split(s, "\n")
    IN  [ i \in 1..Len(pieces) |->
            IF i < Len(pieces) THEN
                (LET p == pieces[i]
                 IN  IF Len(p) > 0 /\ SubSeq(p, Len(p), Len(p)) = "\r"
                     THEN SubSeq(p, 1, Len(p) - 1) ELSE p)
            ELSE pieces[i] ]

\* String.prototype.trim
WhiteSpace == {" ", "\t", "\n", "\r", "\f"}
trim(s) ==
    LET n == Len(s)
        ink(i) == SubSeq(s, i, i) \notin WhiteSpace
    IN  IF \A i \in 1..n : ~ink(i) THEN ""
        ELSE LET first == CHOOSE i \in 1..n : ink(i) /\ \A j \in 1..(i - 1) : ~ink(j)
                 back == CHOOSE k \in 0..(n - 1) :
                             ink(n - k) /\ \A j \in (n - k + 1)..n : ~ink(j)
             IN  SubSeq(s, first, n - back)

startsWith(s, prefix) == Len(s) >= Len(prefix) /\ SubSeq(s, 1, Len(prefix)) = prefix
endsWith(s, c) == Len(s) >= 1 /\ SubSeq(s, Len(s), Len(s)) = c

\* s.replace(/^["']|["']$/g, ""): one quote character off each end
stripQuotes(s) ==
    LET a == IF startsWith(s, "\"") \/ startsWith(s, "'") THEN SubSeq(s, 2, Len(s)) ELSE s
    IN  IF endsWith(a, "\"") \/ endsWith(a, "'") THEN SubSeq(a, 1, Len(a) - 1) ELSE a

\* s.replace(/^https?:\/\//, "")
stripProtocol(s) ==
    IF startsWith(s, "http://") THEN SubSeq(s, 8, Len(s))
    ELSE IF startsWith(s, "https://") THEN SubSeq(s, 9, Len(s))
    ELSE s

\* s.replace(/\/$/, "")
stripTrailingSlash(s) == IF endsWith(s, "/") THEN SubSeq(s, 1, Len(s) - 1) ELSE s

\* [...new Set(seq)]: the first occurrence of each value, in order
uniqueInOrder(seq) ==
    LET first == { i \in 1..Len(seq) : \A j \in 1..(i - 1) : seq[j] # seq[i] }
        nth(k) == CHOOSE i \in first : Cardinality({ j \in first : j < i }) = k - 1
    IN  [ k \in 1..Cardinality(first) |-> seq[nth(k)] ]

(***************************************************************************)
(* Program constants.                                                      *)
(***************************************************************************)
BODY_LIMIT == 50000
UNKNOWN_PROVIDER == "Unknown Provider"
SENTINEL_PROTECTED == "Service protected or active"
SENTINEL_NONE == "No known signature"
GOOGLE_MAIN == {"google.com", "www.google.com", "maps.google.com"}


(***************************************************************************)
(* State.  The two catalogs are the module-level maps imported from        *)
(* ./fingerprints and ./providers, kept as sequences of entries in         *)
(* Object.entries order.  The other variables are one scanSubdomain call:  *)
(* its argument, the position it has reached, the locals of dnsLookup and  *)
(* httpProbe, the value it returns, and a log of the fetch calls it made.  *)
(***************************************************************************)
VARIABLES
    FINGERPRINTS,   \* <<[key, signatures]>>
    PROVIDER_MAP,   \* <<[key, name]>>
    subdomain,      \* the argument of scanSubdomain
    pc,             \* the await the call is suspended at, or "classify"/"done"
    dns,            \* the value dnsLookup returned
    cname,          \* dnsLookup: the CNAME target found by the first query
    scheme,         \* httpProbe: the scheme of the current loop iteration
    timerArmed,     \* httpProbe: the 15 s timer of this iteration is pending
    probe,          \* httpProbe: the result object
    scan,           \* the ScanResult returned, with isVulnerable and fingerprint
    resp,           \* httpProbe: the Response whose body is being read
    fetches         \* the fetch calls issued so far, each with its fate

\* A submission: the POST /api/scan request and the dashboard that sent it.
VARIABLES
    textInput,      \* the text submitted (pasted, or the uploaded file's content)
    domains,        \* the list parseDomainsFromText returned
    phase,          \* POST /api/scan: how far the request has got
    awaiting,       \* handleScan: the await it is suspended at
    apiResponse,    \* handleScan: response, the answer of POST /api/scan
    scanned,        \* the number of hostnames of the batch scanned so far
    uiError,        \* Dashboard state: error ("" for null)
    isScanning      \* Dashboard state: isScanning

\* The reader loop of handleScan.
VARIABLES
    sent,           \* the lines the response body was written as, in order
    stream,         \* the bytes of the response body not yet read
    buffer,         \* handleScan: buffer
    progress,       \* Dashboard state: progress (null, or current and total)
    results         \* Dashboard state: results

\* The configuration API.
VARIABLES
    files,          \* lib/scanner/fingerprints.ts and providers.ts on disk
    requests        \* the requests served so far, each with its response

catalogVars == <<FINGERPRINTS, PROVIDER_MAP>>
scanVars == <<subdomain, pc, dns, cname, scheme, timerArmed, probe, scan, resp, fetches>>
submitVars == <<textInput, domains, phase, awaiting, apiResponse, scanned, uiError,
               isScanning>>
streamVars == <<sent, stream, buffer, progress, results>>
configVars == <<files, requests>>

vars == <<catalogVars, scanVars, submitVars, streamVars, configVars>>

(***************************************************************************)
(* Pure functions of the scanner.                                          *)
(***************************************************************************)
identifyProvider(cnameTarget) ==
    LET lower == toLowerCase(cnameTarget)
        hit(e) == includes(lower, e.key)
        i == FirstIndex({ix \in DOMAIN PROVIDER_MAP : hit(PROVIDER_MAP[ix])})
    IN  IF i > 0 THEN PROVIDER_MAP[i].name ELSE UNKNOWN_PROVIDER

\* a slip: the annotation always made with the catalog key
providerNameOr_keyOnly(providerDomain) == providerDomain

\* PROVIDER_MAP[providerDomain] || providerDomain
providerNameOr(providerDomain) ==
    LET same(e) == e.key = providerDomain
        i == FirstIndex({ix \in DOMAIN PROVIDER_MAP : same(PROVIDER_MAP[ix])})
    IN  IF i > 0 /\ PROVIDER_MAP[i].name # "" THEN PROVIDER_MAP[i].name
        ELSE providerDomain

\* a slip: the two arguments of includes exchanged
firstSignatureIn_reversed(signatures, responseBody) ==
    LET inBody(sig) == includes(sig, responseBody)
    IN  FirstIndex({ix \in DOMAIN signatures : inBody(signatures[ix])})

\* the first signature of a list that the body contains, as an index
firstSignatureIn(signatures, responseBody) ==
    LET inBody(sig) == includes(responseBody, sig)
    IN  FirstIndex({ix \in DOMAIN signatures : inBody(signatures[ix])})

\* a slip: a scoped pass without a hit goes on to the fallback pass
checkFingerprint_fallsThrough(cnameTarget, responseBody) ==
    LET lower == toLowerCase(cnameTarget)
        scoped(e) == includes(lower, e.key)
        k == FirstIndex({ix \in DOMAIN FINGERPRINTS : scoped(FINGERPRINTS[ix])})
        anyHit(e) == firstSignatureIn(e.signatures, responseBody) > 0
        f == FirstIndex({ix \in DOMAIN FINGERPRINTS : anyHit(FINGERPRINTS[ix])})
    IN  IF k > 0 /\ firstSignatureIn(FINGERPRINTS[k].signatures, responseBody) > 0
        THEN LET s == firstSignatureIn(FINGERPRINTS[k].signatures, responseBody)
             IN  IF s > 0
                 THEN [isVulnerable |-> TRUE,
                       matchedSignature |-> FINGERPRINTS[k].signatures[s]]
                 ELSE [isVulnerable |-> FALSE,
                       matchedSignature |-> SENTINEL_PROTECTED]
        ELSE IF f > 0
        THEN LET e == FINGERPRINTS[f]
                 sig == e.signatures[firstSignatureIn(e.signatures, responseBody)]
             IN  [isVulnerable |-> TRUE,
                  matchedSignature |->
                      sig \o " (matched " \o providerNameOr(e.key) \o ")"]
        ELSE [isVulnerable |-> FALSE, matchedSignature |-> SENTINEL_NONE]

checkFingerprint(cnameTarget, responseBody) ==
    LET lower == toLowerCase(cnameTarget)
        scoped(e) == includes(lower, e.key)
        k == FirstIndex({ix \in DOMAIN FINGERPRINTS : scoped(FINGERPRINTS[ix])})
        anyHit(e) == firstSignatureIn(e.signatures, responseBody) > 0
        f == FirstIndex({ix \in DOMAIN FINGERPRINTS : anyHit(FINGERPRINTS[ix])})
    IN  IF k > 0
        THEN LET s == firstSignatureIn(FINGERPRINTS[k].signatures, responseBody)
             IN  IF s > 0
                 THEN [isVulnerable |-> TRUE,
                       matchedSignature |-> FINGERPRINTS[k].signatures[s]]
                 ELSE [isVulnerable |-> FALSE,
                       matchedSignature |-> SENTINEL_PROTECTED]
        ELSE IF f > 0
        THEN LET e == FINGERPRINTS[f]
                 sig == e.signatures[firstSignatureIn(e.signatures, responseBody)]
             IN  [isVulnerable |-> TRUE,
                  matchedSignature |->
                      sig \o " (matched " \o providerNameOr(e.key) \o ")"]
        ELSE [isVulnerable |-> FALSE, matchedSignature |-> SENTINEL_NONE]

Verdict(level, label) == [riskLevel |-> level, riskLabel |-> label]

isThirdParty(provider) == provider # UNKNOWN_PROVIDER

\* a slip: every status from 200 up counted as broken
isBroken_from200(httpStatus) == httpStatus = 0 \/ httpStatus >= 200

\* a slip: every status but 200 counted as broken
isBroken_allBut200(httpStatus) == httpStatus # 200

isBroken(httpStatus) == httpStatus = 0 \/ httpStatus >= 400
\* a slip: the two sentinels counted as fingerprints
hasFingerprint_sentinelsToo(fingerprint) == fingerprint # ""

hasFingerprint(fingerprint) == fingerprint \notin {"", SENTINEL_NONE, SENTINEL_PROTECTED}

\* a slip: the dangling-pointer rule tested before the two takeover rules
classifyRisk_highFirst(dnsStatus, httpStatus, fingerprint, httpError, provider, cnameTarget) ==
    LET cleanCname == stripTrailingDot(toLowerCase(cnameTarget))
        third == isThirdParty(provider)
        broken == isBroken(httpStatus)
        hasFp == hasFingerprint(fingerprint)
    IN  IF cleanCname \in GOOGLE_MAIN
        THEN Verdict("LOW", "Pointed to Google Main (Safe/Not Exploitable)")
        ELSE IF provider = UNKNOWN_PROVIDER /\ includes(cleanCname, "google.com")
        THEN Verdict("LOW", "Pointed to Generic Google (Safe)")
        ELSE IF dnsStatus = "CNAME" /\ broken /\ ~third
        THEN Verdict("MEDIUM", "DNS Hygiene: Self-Pointing or Misconfigured CNAME (Low Likelihood, Some Potential)")
        ELSE IF dnsStatus = "A" /\ broken /\ ~third
        THEN Verdict("MEDIUM", "DNS Hygiene: Misconfigured/Dead A Record (Low Likelihood, Some Potential)")
        ELSE IF third /\ broken
        THEN Verdict("HIGH", "Dangling Pointer to 3rd Party (No Fingerprint)")
        ELSE IF third /\ broken /\ hasFp
        THEN Verdict("CRITICAL", "Confirmed Subdomain Takeover (All 3 Conditions Met)")
        ELSE IF third /\ httpStatus = 200 /\ hasFp
        THEN Verdict("CRITICAL", "Subdomain Takeover (Service Responding 200 with Fingerprint)")
        ELSE IF ~third /\ hasFp /\ broken
        THEN Verdict("HIGH", "Suspicious Content (Fingerprint Found but Provider Unknown)")
        ELSE IF dnsStatus = "NXDOMAIN"
        THEN Verdict("LOW", "No DNS Record - Not Exploitable")
        ELSE IF (dnsStatus = "CNAME" \/ dnsStatus = "A") /\ httpStatus = 200
        THEN Verdict("INFO", "Active Subdomain - Verify Ownership")
        ELSE Verdict("INFO", "Orphaned or Misconfigured Subdomain")

\* a slip: the suspicious-content rule tested before the two hygiene rules
classifyRisk_suspiciousFirst(dnsStatus, httpStatus, fingerprint, httpError, provider, cnameTarget) ==
    LET cleanCname == stripTrailingDot(toLowerCase(cnameTarget))
        third == isThirdParty(provider)
        broken == isBroken(httpStatus)
        hasFp == hasFingerprint(fingerprint)
    IN  IF cleanCname \in GOOGLE_MAIN
        THEN Verdict("LOW", "Pointed to Google Main (Safe/Not Exploitable)")
        ELSE IF provider = UNKNOWN_PROVIDER /\ includes(cleanCname, "google.com")
        THEN Verdict("LOW", "Pointed to Generic Google (Safe)")
        ELSE IF ~third /\ hasFp /\ broken
        THEN Verdict("HIGH", "Suspicious Content (Fingerprint Found but Provider Unknown)")
        ELSE IF dnsStatus = "CNAME" /\ broken /\ ~third
        THEN Verdict("MEDIUM", "DNS Hygiene: Self-Pointing or Misconfigured CNAME (Low Likelihood, Some Potential)")
        ELSE IF dnsStatus = "A" /\ broken /\ ~third
        THEN Verdict("MEDIUM", "DNS Hygiene: Misconfigured/Dead A Record (Low Likelihood, Some Potential)")
        ELSE IF third /\ broken /\ hasFp
        THEN Verdict("CRITICAL", "Confirmed Subdomain Takeover (All 3 Conditions Met)")
        ELSE IF third /\ httpStatus = 200 /\ hasFp
        THEN Verdict("CRITICAL", "Subdomain Takeover (Service Responding 200 with Fingerprint)")
        ELSE IF third /\ broken
        THEN Verdict("HIGH", "Dangling Pointer to 3rd Party (No Fingerprint)")
        ELSE IF dnsStatus = "NXDOMAIN"
        THEN Verdict("LOW", "No DNS Record - Not Exploitable")
        ELSE IF (dnsStatus = "CNAME" \/ dnsStatus = "A") /\ httpStatus = 200
        THEN Verdict("INFO", "Active Subdomain - Verify Ownership")
        ELSE Verdict("INFO", "Orphaned or Misconfigured Subdomain")

classifyRisk(dnsStatus, httpStatus, fingerprint, httpError, provider, cnameTarget) ==
    LET cleanCname == stripTrailingDot(toLowerCase(cnameTarget))
        third == isThirdParty(provider)
        broken == isBroken(httpStatus)
        hasFp == hasFingerprint(fingerprint)
    IN  IF cleanCname \in GOOGLE_MAIN
        THEN Verdict("LOW", "Pointed to Google Main (Safe/Not Exploitable)")
        ELSE IF provider = UNKNOWN_PROVIDER /\ includes(cleanCname, "google.com")
        THEN Verdict("LOW", "Pointed to Generic Google (Safe)")
        ELSE IF dnsStatus = "CNAME" /\ broken /\ ~third
        THEN Verdict("MEDIUM", "DNS Hygiene: Self-Pointing or Misconfigured CNAME (Low Likelihood, Some Potential)")
        ELSE IF dnsStatus = "A" /\ broken /\ ~third
        THEN Verdict("MEDIUM", "DNS Hygiene: Misconfigured/Dead A Record (Low Likelihood, Some Potential)")
        ELSE IF third /\ broken /\ hasFp
        THEN Verdict("CRITICAL", "Confirmed Subdomain Takeover (All 3 Conditions Met)")
        ELSE IF third /\ httpStatus = 200 /\ hasFp
        THEN Verdict("CRITICAL", "Subdomain Takeover (Service Responding 200 with Fingerprint)")
        ELSE IF third /\ broken
        THEN Verdict("HIGH", "Dangling Pointer to 3rd Party (No Fingerprint)")
        ELSE IF ~third /\ hasFp /\ broken
        THEN Verdict("HIGH", "Suspicious Content (Fingerprint Found but Provider Unknown)")
        ELSE IF dnsStatus = "NXDOMAIN"
        THEN Verdict("LOW", "No DNS Record - Not Exploitable")
        ELSE IF (dnsStatus = "CNAME" \/ dnsStatus = "A") /\ httpStatus = 200
        THEN Verdict("INFO", "Active Subdomain - Verify Ownership")
        ELSE Verdict("INFO", "Orphaned or Misconfigured Subdomain")

\* a slip: the active-service check made without looking at the DNS status
determineSecurityIssue_pointerFirst(dnsStatus, httpStatus, fingerprint, riskLevel) ==
    LET hasPointer == dnsStatus = "CNAME" \/ dnsStatus = "A"
        isVulnerableFp == fingerprint \notin {"", SENTINEL_NONE, SENTINEL_PROTECTED}
    IN  IF riskLevel = "CRITICAL" THEN "Subdomain Takeover"
        ELSE IF riskLevel = "HIGH" THEN "Dangling DNS Record"
        ELSE IF riskLevel = "MEDIUM" THEN "DNS Hygiene Misconfiguration"
        ELSE IF httpStatus = 200 /\ ~isVulnerableFp THEN "None - Active Service"
        ELSE IF dnsStatus = "NXDOMAIN" THEN "None - NXDOMAIN"
        ELSE IF hasPointer /\ (httpStatus >= 400 \/ httpStatus = 0) THEN "Potential Misconfiguration"
        ELSE "Potential Misconfiguration"


\* a slip: the NXDOMAIN tag given before the risk level is looked at
determineSecurityIssue_nxdomainFirst(dnsStatus, httpStatus, fingerprint, riskLevel) ==
    LET hasPointer == dnsStatus = "CNAME" \/ dnsStatus = "A"
        isVulnerableFp == fingerprint \notin {"", SENTINEL_NONE, SENTINEL_PROTECTED}
    IN  IF dnsStatus = "NXDOMAIN" THEN "None - NXDOMAIN"
        ELSE IF riskLevel = "CRITICAL" THEN "Subdomain Takeover"
        ELSE IF riskLevel = "HIGH" THEN "Dangling DNS Record"
        ELSE IF riskLevel = "MEDIUM" THEN "DNS Hygiene Misconfiguration"
        ELSE IF hasPointer /\ httpStatus = 200 /\ ~isVulnerableFp THEN "None - Active Service"
        ELSE "Potential Misconfiguration"

determineSecurityIssue(dnsStatus, httpStatus, fingerprint, riskLevel) ==
    LET hasPointer == dnsStatus = "CNAME" \/ dnsStatus = "A"
        isVulnerableFp == fingerprint \notin {"", SENTINEL_NONE, SENTINEL_PROTECTED}
    IN  IF riskLevel = "CRITICAL" THEN "Subdomain Takeover"
        ELSE IF riskLevel = "HIGH" THEN "Dangling DNS Record"
        ELSE IF riskLevel = "MEDIUM" THEN "DNS Hygiene Misconfiguration"
        ELSE IF hasPointer /\ httpStatus = 200 /\ ~isVulnerableFp THEN "None - Active Service"
        ELSE IF dnsStatus = "NXDOMAIN" THEN "None - NXDOMAIN"
        ELSE IF hasPointer /\ (httpStatus >= 400 \/ httpStatus = 0) THEN "Potential Misconfiguration"
        ELSE "Potential Misconfiguration"


\* the loop body of parseDomainsFromText: the value made from one line
domainOfLine(line) ==
    LET parts == split(line, ",")
        val == trim(parts[1])
    IN  stripTrailingSlash(stripProtocol(stripQuotes(val)))

\* a slip: the Set built from the end, so that a repeated entry keeps the
\* place of its last occurrence
parseDomainsFromText_lastWins(text) ==
    LET lines == splitLines(text)
        firstLine == toLowerCase(lines[1])
        skipHeader == includes(firstLine, "subdomain") \/ includes(firstLine, "domain")
        body == IF skipHeader THEN Tail(lines) ELSE lines
        vals == [ i \in 1..Len(body) |-> domainOfLine(body[i]) ]
        found == SelectSeq(vals, LAMBDA val : val # "" /\ includes(val, "."))
        reversed(seq) == [ i \in 1..Len(seq) |-> seq[Len(seq) + 1 - i] ]
    IN  reversed(uniqueInOrder(reversed(found)))

parseDomainsFromText(text) ==
    LET lines == splitLines(text)
        firstLine == toLowerCase(lines[1])
        skipHeader == includes(firstLine, "subdomain") \/ includes(firstLine, "domain")
        body == IF skipHeader THEN Tail(lines) ELSE lines
        vals == [ i \in 1..Len(body) |-> domainOfLine(body[i]) ]
        found == SelectSeq(vals, LAMBDA val : val # "" /\ includes(val, "."))
    IN  uniqueInOrder(found)

(***************************************************************************)
(* The generators of the configuration API: the TypeScript source written  *)
(* to lib/scanner/fingerprints.ts and lib/scanner/providers.ts.            *)
(***************************************************************************)
\* v.replace(/\\/g, "\\\\").replace(/"/g, '\\"')
RECURSIVE escapeLiteral(_)
escapeLiteral(v) ==
    IF v = "" THEN ""
    ELSE LET c == SubSeq(v, 1, 1)
             e == IF c = "\\" THEN "\\\\" ELSE IF c = "\"" THEN "\\\"" ELSE c
         IN  e \o escapeLiteral(SubSeq(v, 2, Len(v)))

quoted(s) == "\"" \o s \o "\""

generateFingerprintTs(data) ==
    LET escaped(values) == [ i \in 1..Len(values) |-> quoted(escapeLiteral(values[i])) ]
        entry(e) == "  " \o quoted(e.key) \o ": [" \o join(escaped(e.signatures), ", ") \o "],"
        lines == <<"export const FINGERPRINTS: Record<string, string[]> = {">>
                 \o [ i \in 1..Len(data) |-> entry(data[i]) ]
                 \o <<"}\n">>
    IN  join(lines, "\n")

generateProviderTs(data) ==
    LET entry(e) == "  " \o quoted(e.key) \o ": " \o quoted(escapeLiteral(e.name)) \o ","
        lines == <<"export const PROVIDER_MAP: Record<string, string> = {">>
                 \o [ i \in 1..Len(data) |-> entry(data[i]) ]
                 \o <<"}\n">>
    IN  join(lines, "\n")

(***************************************************************************)
(* Inputs.  Catalog contents the configuration interface can write, the    *)
(* hostnames submitted, and what the resolver and the probed server can    *)
(* answer.                                                                 *)
(***************************************************************************)
SIG_GITHUB == "There isn't a GitHub Pages site here."
SIG_BUCKET == "NoSuchBucket"
SIG_KEY == "NoSuchKey"

P(k, n) == [key |-> k, name |-> n]
F(k, sigs) == [key |-> k, signatures |-> sigs]

\* one entry per service, the same keys in both maps
StockCatalog ==
    [pm |-> <<P("github.io", "GitHub Pages"), P("s3.amazonaws.com", "AWS S3")>>,
     fp |-> <<F("github.io", <<SIG_GITHUB>>),
              F("s3.amazonaws.com", <<SIG_KEY, SIG_BUCKET>>)>>]

Catalogs ==
    { StockCatalog,
      \* a key that is a suffix of another key, the maps in different orders
      [pm |-> <<P("s3.amazonaws.com", "AWS S3"), P("amazonaws.com", "AWS")>>,
       fp |-> <<F("amazonaws.com", <<SIG_KEY>>),
                F("s3.amazonaws.com", <<SIG_BUCKET>>)>>],
      \* the two maps written independently: a fingerprint key without a name
      [pm |-> <<P("github.io", "GitHub Pages")>>,
       fp |-> <<F("s3.amazonaws.com", <<SIG_BUCKET>>),
                F("github.io", <<SIG_GITHUB>>)>>],
      \* the two maps written independently: a name without fingerprints
      [pm |-> <<P("github.io", "GitHub Pages"), P("s3.amazonaws.com", "AWS S3")>>,
       fp |-> <<F("s3.amazonaws.com", <<SIG_BUCKET>>)>>],
      \* keys typed with capital letters
      [pm |-> <<P("GitHub.io", "GitHub Pages")>>,
       fp |-> <<F("GitHub.io", <<SIG_GITHUB>>)>>],
      \* an empty signature and a signature equal to a sentinel
      [pm |-> <<P("github.io", "GitHub Pages"), P("s3.amazonaws.com", "AWS S3")>>,
       fp |-> <<F("github.io", <<"", SIG_GITHUB>>),
                F("s3.amazonaws.com", <<SENTINEL_NONE>>)>>],
      \* a provider whose domain is google.com
      [pm |-> <<P("google.com", "Google Cloud")>>,
       fp |-> <<F("google.com", <<SIG_BUCKET>>)>>] }

Hostnames ==
    {"shop.example.com", "www.google.com", "blog.github.io", "Mail.Google.com"}

\* the data of CNAME records, as the resolver writes them
CnameTargets ==
    {"site.github.io.", "bkt.s3.amazonaws.com.", "Site.GitHub.io.",
     "www.google.com.", "cdn.example.net."}

\* the data of A records
MaxARecords == 2
Addresses == <<"93.184.216.34", "10.0.0.7", "192.0.2.1">>

RR(t, d) == [type |-> t, hasData |-> TRUE, data |-> d]
RRNoData(t) == [type |-> t, hasData |-> FALSE, data |-> ""]

\* a parsed DNS-over-HTTPS reply: null, or an object whose Status and Answer
\* may be missing and whose Answer may not be an array
JNull == [t |-> "null", hasStatus |-> FALSE, Status |-> 0, answer |-> "undefined", items |-> <<>>]
JObj(st, items) == [t |-> "object", hasStatus |-> TRUE, Status |-> st, answer |-> "array", items |-> items]
JNoAnswer(st) == [t |-> "object", hasStatus |-> TRUE, Status |-> st, answer |-> "undefined", items |-> <<>>]
JError == [t |-> "object", hasStatus |-> FALSE, Status |-> 0, answer |-> "undefined", items |-> <<>>]
JBadAnswer == [t |-> "object", hasStatus |-> TRUE, Status |-> 0, answer |-> "string", items |-> <<>>]

ARecordLists == { [i \in 1..n |-> RR(1, Addresses[i])] : n \in 1..MaxARecords }

CnameQueryData ==
    { JObj(0, <<RR(5, t)>>) : t \in CnameTargets }
    \cup { JObj(0, <<RR(46, "rrsig"), RR(5, "cdn.example.net.")>>),
           JObj(0, <<RR(5, "site.github.io."), RR(5, "cdn.example.net.")>>),
           JObj(0, <<RR(46, "rrsig")>>),
           JObj(0, <<RRNoData(5)>>),
           JNoAnswer(0), JNoAnswer(3), JNull, JError, JBadAnswer }

TargetCheckData ==
    { JObj(0, <<RR(1, Addresses[1])>>), JNoAnswer(0), JNoAnswer(3), JNoAnswer(2), JNull }

AQueryData ==
    { JObj(0, items) : items \in ARecordLists }
    \cup { JObj(0, <<RR(5, t)>>) : t \in {"site.github.io.", "cdn.example.net"} }
    \cup { JObj(0, <<RR(5, "site.github.io."), RR(1, Addresses[1])>>),
           JObj(3, <<RR(1, Addresses[1])>>),
           JObj(0, <<>>), JObj(0, <<RRNoData(5)>>),
           JNoAnswer(0), JNoAnswer(3), JNoAnswer(2), JNull, JError, JBadAnswer }

\* the errors a fetch(...) or a res.json() can reject with, other than the timer
ERR_NETWORK == "fetch failed"
ERR_JSON == "Unexpected token < in JSON at position 0"
ERR_TIMEOUT == "The operation was aborted due to timeout"
DnsRejections == {ERR_NETWORK, ERR_JSON}

\* what the probed server answers: status line and server header, then a body
Responses ==
    { [status |-> 200, server |-> "nginx"],
      [status |-> 204, server |-> ""],
      [status |-> 404, server |-> "AmazonS3"] }
Bodies ==
    {"", "<h1>It works</h1>", "<Code>NoSuchBucket</Code>", "<Code>NoSuchKey</Code>",
     SIG_GITHUB}


\* the lines a submitted text is made of, and the texts: up to MaxLines lines
\* separated by line feeds or by carriage return and line feed
MaxLines == 3
Lines ==
    {"Subdomain", "https://foo.example.com/", "\"bar.example.com\"", "bar.example.com",
     "Bar.Example.com", " foo.example.com\t", "localhost", "mydomain.example.com,owner", ""}
LineSeqs == UNION { [1..n -> Lines] : n \in 1..MaxLines }
Texts == { join(ls, sep) : ls \in LineSeqs, sep \in {"\n", "\r\n"} }

\* a text of n distinct hostnames, one per line
hostLine(i) == "h" \o ToString(i) \o ".example.com"
batchText(n) == join([ i \in 1..n |-> hostLine(i) ], "\n")

\* the largest batch POST /api/scan accepts
MAX_BATCH == 100
BatchTexts == { batchText(MAX_BATCH), batchText(MAX_BATCH + 1) }

(***************************************************************************)
(* dnsLookup.  Each await is one step; what follows an await up to the     *)
(* next await or return is computed by the operators below.  A step        *)
(* yields a return value, a thrown error (caught at the function's catch)  *)
(* or the next query.                                                      *)
(***************************************************************************)
Outcome(status, target, text) ==
    [dnsStatus |-> status, cnameTarget |-> target, dnsLookupText |-> text]

NoOutcome == Outcome("", "", "")

Return(value) == [kind |-> "return", value |-> value, message |-> "", cname |-> ""]
Throw(message) == [kind |-> "throw", value |-> NoOutcome, message |-> message, cname |-> ""]
QueryTarget(c) == [kind |-> "check", value |-> NoOutcome, message |-> "", cname |-> c]
QueryA == [kind |-> "a", value |-> NoOutcome, message |-> "", cname |-> ""]

\* a slip: the catch block drops the error's message
dnsCatch_noMessage(message) == Outcome("NXDOMAIN", "", "DNS Error")

\* the catch block of dnsLookup
dnsCatch(message) == Outcome("NXDOMAIN", "", "DNS Error: " \o message)

\* Array.prototype.find / filter on (a) => a.type === t
findType(items, t) ==
    LET isT(a) == a.type = t
    IN  FirstIndex({ix \in DOMAIN items : isT(items[ix])})

filterType(items, t) == SelectSeq(items, LAMBDA a : a.type = t)

statusText(data) == IF data.hasStatus THEN ToString(data.Status) ELSE "undefined"

\* after `data = await res.json()` of the CNAME query
afterCnameQuery(data) ==
    IF data.t = "null"
    THEN Throw("Cannot read properties of null (reading 'Answer')")
    ELSE IF data.answer = "undefined" THEN QueryA
    ELSE IF data.answer # "array" THEN Throw("data.Answer.find is not a function")
    ELSE LET i == findType(data.items, 5)
         IN  IF i = 0 THEN QueryA
             ELSE IF ~data.items[i].hasData
             THEN Throw("Cannot read properties of undefined (reading 'replace')")
             ELSE QueryTarget(stripTrailingDot(data.items[i].data))

\* the inner try/catch around the query for the CNAME target
cnameResolvesAfter(ok, aData) ==
    IF ~ok THEN FALSE
    ELSE IF aData.t = "null" THEN FALSE
    ELSE ~(aData.hasStatus /\ aData.Status = 3)

afterTargetCheck(c, ok, aData) ==
    LET note == IF cnameResolvesAfter(ok, aData) THEN "" ELSE " [CNAME target NXDOMAIN]"
    IN  Return(Outcome("CNAME", c, "CNAME -> " \o c \o note))

\* a slip: a CNAME found in the A answer also gets the resolvability query
afterAQuery_checksTarget(aData) ==
    LET c == IF aData.t = "object" /\ aData.answer = "array"
             THEN findType(aData.items, 5) ELSE 0
    IN  IF c > 0 /\ aData.items[c].hasData /\ Len(filterType(aData.items, 1)) = 0
           /\ ~(aData.hasStatus /\ aData.Status = 3)
        THEN QueryTarget(stripTrailingDot(aData.items[c].data))
        ELSE Return(Outcome("NXDOMAIN", "", "NXDOMAIN"))

\* after `aData = await aRes.json()` of the A query
afterAQuery(aData) ==
    IF aData.t = "null"
    THEN Throw("Cannot read properties of null (reading 'Status')")
    ELSE IF aData.hasStatus /\ aData.Status = 3
    THEN Return(Outcome("NXDOMAIN", "", "NXDOMAIN"))
    ELSE IF aData.answer \notin {"undefined", "array"}
    THEN Throw("aData.Answer.filter is not a function")
    ELSE LET aRecords == IF aData.answer = "array" THEN filterType(aData.items, 1) ELSE <<>>
             ips == [i \in 1..Len(aRecords) |-> aRecords[i].data]
             c == IF aData.answer = "array" THEN findType(aData.items, 5) ELSE 0
         IN  IF Len(aRecords) > 0
             THEN Return(Outcome("A", ips[1], "A -> " \o join(ips, ", ")))
             ELSE IF c > 0
             THEN IF ~aData.items[c].hasData
                  THEN Throw("Cannot read properties of undefined (reading 'replace')")
                  ELSE LET t == stripTrailingDot(aData.items[c].data)
                       IN  Return(Outcome("CNAME", t, "CNAME -> " \o t))
             ELSE IF aData.hasStatus /\ aData.Status = 0 /\ aData.answer = "undefined"
             THEN Return(Outcome("NXDOMAIN", "", "No DNS Answer"))
             ELSE Return(Outcome("NXDOMAIN", "", "DNS Status: " \o statusText(aData)))

\* the fetch log: each request with what became of it and, for a DNS query
\* answered with JSON, the answer
Unanswered == [t |-> "none", hasStatus |-> FALSE, Status |-> 0, answer |-> "undefined", items |-> <<>>]
issue(log, q, name, role) ==
    Append(log, [q |-> q, name |-> name, role |-> role, fate |-> "pending", err |-> "",
                 answer |-> Unanswered])
settle(log, fate, err) == [log EXCEPT ![Len(log)].fate = fate, ![Len(log)].err = err]
hear(log, data) == [log EXCEPT ![Len(log)].answer = data]

\* the result object httpProbe starts from
EmptyProbe == [status |-> 0, body |-> "", error |-> "", serverHeader |-> ""]
NoResponse == [status |-> 0, server |-> ""]
NoScan == [done |-> FALSE]

\* dnsLookup returns `value`; scanSubdomain goes on to httpProbe, whose first
\* loop iteration arms its timer and calls fetch("https://...")
dnsReturns(value, fate, err, data) ==
    /\ dns' = value
    /\ pc' = "http_fetch"
    /\ scheme' = "https"
    /\ timerArmed' = TRUE
    /\ probe' = EmptyProbe
    /\ fetches' = issue(hear(settle(fetches, fate, err), data), "https", subdomain, "probe")
    /\ UNCHANGED <<FINGERPRINTS, PROVIDER_MAP, subdomain, scan, resp>>
    /\ UNCHANGED <<submitVars, streamVars, configVars>>

\* a step of dnsLookup ends: return, throw to the catch block, or next query
dnsStep(step, fate, data) ==
    CASE step.kind = "return" -> dnsReturns(step.value, fate, "", data) /\ UNCHANGED cname
      [] step.kind = "throw" ->
            /\ dnsReturns(dnsCatch(step.message),
                          IF fate = "answered" THEN "malformed" ELSE fate, step.message, data)
            /\ UNCHANGED cname
      [] step.kind = "check" ->
            /\ pc' = "dns_check"
            /\ cname' = step.cname
            /\ fetches' = issue(hear(settle(fetches, fate, ""), data), "A", step.cname, "check")
            /\ UNCHANGED <<FINGERPRINTS, PROVIDER_MAP, subdomain, dns, scheme,
                           timerArmed, probe, scan, resp>>
            /\ UNCHANGED <<submitVars, streamVars, configVars>>
      [] step.kind = "a" ->
            /\ pc' = "dns_a"
            /\ fetches' = issue(hear(settle(fetches, fate, ""), data), "A", subdomain, "primary")
            /\ UNCHANGED <<FINGERPRINTS, PROVIDER_MAP, subdomain, dns, cname, scheme,
                           timerArmed, probe, scan, resp>>
            /\ UNCHANGED <<submitVars, streamVars, configVars>>

\* the state of the parts of the system a specification leaves at rest
NoApiResponse == [received |-> FALSE, ok |-> FALSE, status |-> 0, error |-> ""]
NoProgress == [isNull |-> TRUE, current |-> 0, total |-> 0]
filesOf(c) == [fingerprints |-> generateFingerprintTs(c.fp),
               providers |-> generateProviderTs(c.pm)]

SubmitIdle ==
    /\ textInput = ""
    /\ domains = <<>>
    /\ phase = "idle"
    /\ awaiting = "idle"
    /\ apiResponse = NoApiResponse
    /\ scanned = 0
    /\ uiError = ""
    /\ isScanning = FALSE

StreamIdle ==
    /\ sent = <<>>
    /\ stream = ""
    /\ buffer = ""
    /\ progress = NoProgress
    /\ results = <<>>

ConfigIdle ==
    /\ files = filesOf([fp |-> FINGERPRINTS, pm |-> PROVIDER_MAP])
    /\ requests = <<>>

ScanIdle ==
    /\ subdomain = ""
    /\ pc = "idle"
    /\ dns = NoOutcome
    /\ cname = ""
    /\ scheme = ""
    /\ timerArmed = FALSE
    /\ probe = EmptyProbe
    /\ scan = NoScan
    /\ resp = NoResponse
    /\ fetches = <<>>

CatalogsStock == FINGERPRINTS = StockCatalog.fp /\ PROVIDER_MAP = StockCatalog.pm

Init ==
    /\ \E c \in Catalogs : FINGERPRINTS = c.fp /\ PROVIDER_MAP = c.pm
    /\ SubmitIdle /\ StreamIdle /\ ConfigIdle
    /\ subdomain \in Hostnames
    /\ pc = "dns_cname"
    /\ dns = NoOutcome
    /\ cname = ""
    /\ scheme = ""
    /\ timerArmed = FALSE
    /\ probe = EmptyProbe
    /\ scan = NoScan
    /\ resp = NoResponse
    /\ fetches = issue(<<>>, "CNAME", subdomain, "primary")

\* the CNAME query is answered with JSON
CnameQueryAnswered ==
    /\ pc = "dns_cname"
    /\ \E data \in CnameQueryData : dnsStep(afterCnameQuery(data), "answered", data)

\* the query for the CNAME target is answered with JSON
TargetCheckAnswered ==
    /\ pc = "dns_check"
    /\ \E aData \in TargetCheckData : dnsStep(afterTargetCheck(cname, TRUE, aData), "answered", aData)

\* the A query is answered with JSON
AQueryAnswered ==
    /\ pc = "dns_a"
    /\ \E aData \in AQueryData : dnsStep(afterAQuery(aData), "answered", aData)

\* fetch or res.json() of a primary query rejects: network error, non-JSON body
PrimaryQueryFails ==
    /\ pc \in {"dns_cname", "dns_a"}
    /\ \E m \in DnsRejections : dnsStep(Throw(m), "error", Unanswered)

\* fetch or aRes.json() of the query for the CNAME target rejects
TargetCheckFails ==
    /\ pc = "dns_check"
    /\ \E m \in DnsRejections : dnsStep(afterTargetCheck(cname, FALSE, JNull), "error", Unanswered)

\* AbortSignal.timeout(8000) / AbortSignal.timeout(5000) fires
DnsTimeout ==
    \/ /\ pc \in {"dns_cname", "dns_a"}
       /\ dnsStep(Throw(ERR_TIMEOUT), "timeout", Unanswered)
    \/ /\ pc = "dns_check"
       /\ dnsStep(afterTargetCheck(cname, FALSE, JNull), "timeout", Unanswered)


(***************************************************************************)
(* httpProbe.  One loop iteration per scheme: arm the timer, await fetch,  *)
(* clear the timer, record the status, await resp.text().                  *)
(***************************************************************************)
\* the catch block: what it leaves in result.error, given the error's name
errorAfterCatch(errName, sch, error) ==
    IF errName = "AbortError" THEN "Timeout"
    ELSE IF sch = "http" THEN "Connection Failed" ELSE ""

\* a slip: a timed-out https attempt also goes on to http
catchReturns_onlyHttp(errName, sch) == sch = "http"

\* the catch block returns result, or the loop goes on to the next scheme
catchReturns(errName, sch) == errName = "AbortError" \/ sch = "http"

\* result after the try block ran to its end
resultAfterBody(result, response, text) ==
    [result EXCEPT !.body = sliceTo(text, BODY_LIMIT),
                   !.serverHeader = response.server,
                   !.error = ""]

\* httpProbe returns: scanSubdomain goes on, synchronously, to classification
probeReturns(result, fate) ==
    /\ probe' = result
    /\ pc' = "classify"
    /\ timerArmed' = FALSE
    /\ fetches' = settle(fetches, fate, "")
    /\ UNCHANGED <<FINGERPRINTS, PROVIDER_MAP, subdomain, dns, cname, scheme, scan, resp>>
    /\ UNCHANGED <<submitVars, streamVars, configVars>>

\* an error reaches the catch block of the current iteration
probeCatches(errName, fate) ==
    LET result == [probe EXCEPT !.error = errorAfterCatch(errName, scheme, probe.error)]
    IN  IF catchReturns(errName, scheme)
        THEN probeReturns(result, fate)
        ELSE /\ probe' = result
             /\ scheme' = "http"
             /\ timerArmed' = TRUE
             /\ pc' = "http_fetch"
             /\ fetches' = issue(settle(fetches, fate, ""), "http", subdomain, "probe")
             /\ UNCHANGED <<FINGERPRINTS, PROVIDER_MAP, subdomain, dns, cname, scan, resp>>
             /\ UNCHANGED <<submitVars, streamVars, configVars>>

\* fetch(url) rejects before any response: refused, reset, TLS or DNS failure
HttpFetchFails ==
    /\ pc = "http_fetch"
    /\ probeCatches("TypeError", "error")

\* the 15 s timer fires while fetch(url) is pending: controller.abort()
HttpTimeout ==
    /\ pc = "http_fetch"
    /\ timerArmed
    /\ probeCatches("AbortError", "timeout")

\* fetch(url) resolves with the response headers: clearTimeout, result.status
HttpHeaders ==
    /\ pc = "http_fetch"
    /\ \E r \in Responses :
         /\ resp' = r
         /\ probe' = [probe EXCEPT !.status = r.status]
    /\ timerArmed' = FALSE
    /\ pc' = "http_body"
    /\ fetches' = settle(fetches, "headers", "")
    /\ UNCHANGED <<FINGERPRINTS, PROVIDER_MAP, subdomain, dns, cname, scheme, scan>>
    /\ UNCHANGED <<submitVars, streamVars, configVars>>

\* resp.text() resolves
HttpBody ==
    /\ pc = "http_body"
    /\ \E text \in Bodies : probeReturns(resultAfterBody(probe, resp, text), "response")

\* resp.text() rejects: the connection breaks while the body is read
HttpBodyFails ==
    /\ pc = "http_body"
    /\ probeCatches("TypeError", "bodyError")

(***************************************************************************)
(* scanSubdomain after `await httpProbe`: provider, fingerprint, verdict,  *)
(* the synthesized signature and the displayed status.  scannedAt is the   *)
(* wall clock and is left out.                                             *)
(***************************************************************************)
effectiveCnameOf(cnameTarget, host) == IF cnameTarget # "" THEN cnameTarget ELSE host

\* a slip: the fingerprint used whenever the matcher reported a hit
signatureOf_anyHit(provider, isVulnerable, fingerprint, result) ==
    IF isVulnerable THEN provider \o " - " \o fingerprint
    ELSE IF result.error # "" /\ result.status = 0 THEN provider \o " - " \o result.error
    ELSE IF result.status > 0 THEN provider \o " - HTTP " \o ToString(result.status)
    ELSE provider \o " - No Response"

signatureOf(provider, isVulnerable, fingerprint, result) ==
    IF isVulnerable /\ fingerprint # "" THEN provider \o " - " \o fingerprint
    ELSE IF result.error # "" /\ result.status = 0 THEN provider \o " - " \o result.error
    ELSE IF result.status > 0 THEN provider \o " - HTTP " \o ToString(result.status)
    ELSE provider \o " - No Response"

httpDisplayOf(result) ==
    IF result.status = 0
    THEN "0 (" \o (IF result.error # "" THEN result.error ELSE "No Response") \o ")"
    ELSE ToString(result.status)

\* a slip: the classifier given the scanned hostname, not the effective name
scanResult_classifiesHost(host, lookup, result) ==
    LET effectiveCname == effectiveCnameOf(lookup.cnameTarget, host)
        provider == identifyProvider(effectiveCname)
        fp == checkFingerprint(effectiveCname, result.body)
        risk == classifyRisk(lookup.dnsStatus, result.status, fp.matchedSignature,
                             result.error, provider, host)
    IN  [done |-> TRUE,
         subdomain |-> host,
         cname |-> effectiveCname,
         dnsStatus |-> lookup.dnsStatus,
         httpStatus |-> httpDisplayOf(result),
         provider |-> provider,
         signature |-> signatureOf(provider, fp.isVulnerable, fp.matchedSignature, result),
         dnsLookupResult |-> lookup.dnsLookupText,
         securityIssue |-> determineSecurityIssue(lookup.dnsStatus, result.status,
                                                  fp.matchedSignature, risk.riskLevel),
         riskLevel |-> risk.riskLevel,
         riskLabel |-> risk.riskLabel,
         serverHeader |-> result.serverHeader,
         isVulnerable |-> fp.isVulnerable,
         fingerprint |-> fp.matchedSignature]

scanResult(host, lookup, result) ==
    LET effectiveCname == effectiveCnameOf(lookup.cnameTarget, host)
        provider == identifyProvider(effectiveCname)
        fp == checkFingerprint(effectiveCname, result.body)
        risk == classifyRisk(lookup.dnsStatus, result.status, fp.matchedSignature,
                             result.error, provider, effectiveCname)
    IN  [done |-> TRUE,
         subdomain |-> host,
         cname |-> effectiveCname,
         dnsStatus |-> lookup.dnsStatus,
         httpStatus |-> httpDisplayOf(result),
         provider |-> provider,
         signature |-> signatureOf(provider, fp.isVulnerable, fp.matchedSignature, result),
         dnsLookupResult |-> lookup.dnsLookupText,
         securityIssue |-> determineSecurityIssue(lookup.dnsStatus, result.status,
                                                  fp.matchedSignature, risk.riskLevel),
         riskLevel |-> risk.riskLevel,
         riskLabel |-> risk.riskLabel,
         serverHeader |-> result.serverHeader,
         isVulnerable |-> fp.isVulnerable,
         fingerprint |-> fp.matchedSignature]

Classify ==
    /\ pc = "classify"
    /\ scan' = scanResult(subdomain, dns, probe)
    /\ pc' = "done"
    /\ UNCHANGED <<FINGERPRINTS, PROVIDER_MAP, subdomain, dns, cname, scheme,
                   timerArmed, probe, resp, fetches>>
    /\ UNCHANGED <<submitVars, streamVars, configVars>>

Next ==
    \/ CnameQueryAnswered
    \/ TargetCheckAnswered
    \/ AQueryAnswered
    \/ PrimaryQueryFails
    \/ TargetCheckFails
    \/ DnsTimeout
    \/ HttpFetchFails
    \/ HttpTimeout
    \/ HttpHeaders
    \/ HttpBody
    \/ HttpBodyFails
    \/ Classify

Spec == Init /\ [][Next]_vars

\* The timers are the runtime's: once armed they fire unless cleared.  The
\* resolver and the probed server owe no answer.  Whether dnsLookup and
\* httpProbe return does not depend on the catalogs or on the hostname, so one
\* of each is taken.
LiveInit ==
    /\ Init
    /\ FINGERPRINTS = StockCatalog.fp
    /\ PROVIDER_MAP = StockCatalog.pm
    /\ subdomain = "shop.example.com"

LiveSpec ==
    /\ LiveInit
    /\ [][Next]_vars
    /\ WF_vars(DnsTimeout) /\ WF_vars(HttpTimeout)

(***************************************************************************)
(* A submission.  handleScan posts the form and awaits the response; the   *)
(* POST /api/scan handler parses the text, validates the batch and scans   *)
(* the hostnames one after the other, writing one event per hostname.      *)
(***************************************************************************)
ERR_EMPTY_BATCH == "No valid domains found"
ERR_BATCH_TOO_LARGE == "Maximum " \o ToString(MAX_BATCH) \o " domains allowed"
ERR_FETCH == "Failed to fetch"

\* errorData.error || "Scan failed"
errorShown(errorData) == IF errorData # "" THEN errorData ELSE "Scan failed"

\* handleScan up to `await fetch("/api/scan", ...)`
SubmitInit ==
    /\ CatalogsStock /\ ScanIdle /\ StreamIdle /\ ConfigIdle
    /\ textInput \in Texts \cup BatchTexts
    /\ domains = <<>>
    /\ phase = "posted"
    /\ awaiting = "fetch"
    /\ apiResponse = NoApiResponse
    /\ scanned = 0
    /\ uiError = ""
    /\ isScanning = TRUE

\* the handler parses the submitted text
ParseText ==
    /\ phase = "posted"
    /\ domains' = parseDomainsFromText(textInput)
    /\ phase' = "parsed"
    /\ UNCHANGED <<textInput, awaiting, apiResponse, scanned, uiError, isScanning>>
    /\ UNCHANGED <<catalogVars, scanVars, streamVars, configVars>>

\* an empty batch or one over the cap is answered with an error status
RejectBatch ==
    /\ phase = "parsed"
    /\ Len(domains) = 0 \/ Len(domains) > MAX_BATCH
    /\ apiResponse' = [received |-> TRUE, ok |-> FALSE, status |-> 400,
                       error |-> IF Len(domains) = 0 THEN ERR_EMPTY_BATCH
                                 ELSE ERR_BATCH_TOO_LARGE]
    /\ phase' = "rejected"
    /\ UNCHANGED <<textInput, domains, awaiting, scanned, uiError, isScanning>>
    /\ UNCHANGED <<catalogVars, scanVars, streamVars, configVars>>

\* any other batch is accepted: the response starts with the init event
AcceptBatch ==
    /\ phase = "parsed"
    /\ Len(domains) \in 1..MAX_BATCH
    /\ apiResponse' = [received |-> TRUE, ok |-> TRUE, status |-> 200, error |-> ""]
    /\ phase' = "streaming"
    /\ UNCHANGED <<textInput, domains, awaiting, scanned, uiError, isScanning>>
    /\ UNCHANGED <<catalogVars, scanVars, streamVars, configVars>>

\* the next hostname of the batch is scanned and its event written
ScanNext ==
    /\ phase = "streaming"
    /\ scanned < Len(domains)
    /\ scanned' = scanned + 1
    /\ UNCHANGED <<textInput, domains, phase, awaiting, apiResponse, uiError, isScanning>>
    /\ UNCHANGED <<catalogVars, scanVars, streamVars, configVars>>

\* every hostname has been scanned: the response stream is closed
CloseStream ==
    /\ phase = "streaming"
    /\ scanned = Len(domains)
    /\ phase' = "closed"
    /\ UNCHANGED <<textInput, domains, awaiting, apiResponse, scanned, uiError, isScanning>>
    /\ UNCHANGED <<catalogVars, scanVars, streamVars, configVars>>

\* a slip: a response that is not ok ends the scan without setting the error
ResponseNotOk_silent ==
    /\ awaiting = "fetch"
    /\ apiResponse.received /\ ~apiResponse.ok
    /\ isScanning' = FALSE
    /\ awaiting' = "returned"
    /\ UNCHANGED <<textInput, domains, phase, apiResponse, scanned, uiError>>
    /\ UNCHANGED <<catalogVars, scanVars, streamVars, configVars>>

\* handleScan: fetch resolved with a response that is not ok
ResponseNotOk ==
    /\ awaiting = "fetch"
    /\ apiResponse.received /\ ~apiResponse.ok
    /\ uiError' = errorShown(apiResponse.error)
    /\ isScanning' = FALSE
    /\ awaiting' = "returned"
    /\ UNCHANGED <<textInput, domains, phase, apiResponse, scanned>>
    /\ UNCHANGED <<catalogVars, scanVars, streamVars, configVars>>

\* handleScan: fetch resolved with an ok response; the reader loop starts
ResponseOk ==
    /\ awaiting = "fetch"
    /\ apiResponse.received /\ apiResponse.ok
    /\ awaiting' = "read"
    /\ UNCHANGED <<textInput, domains, phase, apiResponse, scanned, uiError, isScanning>>
    /\ UNCHANGED <<catalogVars, scanVars, streamVars, configVars>>

\* handleScan: fetch rejected before any response; catch and finally blocks
FetchFails ==
    /\ awaiting = "fetch"
    /\ ~apiResponse.received
    /\ uiError' = ERR_FETCH
    /\ isScanning' = FALSE
    /\ awaiting' = "returned"
    /\ UNCHANGED <<textInput, domains, phase, apiResponse, scanned>>
    /\ UNCHANGED <<catalogVars, scanVars, streamVars, configVars>>

SubmitNext ==
    \/ ParseText
    \/ RejectBatch
    \/ AcceptBatch
    \/ ScanNext
    \/ CloseStream
    \/ ResponseNotOk
    \/ ResponseOk
    \/ FetchFails

SubmitSpec == SubmitInit /\ [][SubmitNext]_vars

(***************************************************************************)
(* The configuration API.  GET answers with the maps the route module      *)
(* imported when it was loaded; PUT writes TypeScript source to the two    *)
(* files.  The running server does not load the files again.               *)
(***************************************************************************)
\* the bodies a PUT can carry in `data`: a mapping to signature lists, a
\* mapping to display names, null, a string
MapPayload(shape, entries) == [shape |-> shape, entries |-> entries]
FpPayloads ==
    { MapPayload("lists", <<F("herokuapp.com", <<"No such app">>)>>),
      MapPayload("lists", <<F("github.io", <<"say \"404\"", "a\\b">>),
                            F("s3.amazonaws.com", <<>>)>>) }
PmPayloads ==
    { MapPayload("names", <<P("herokuapp.com", "Heroku")>>) }
Payloads ==
    FpPayloads \cup PmPayloads
        \cup { MapPayload("null", <<>>), MapPayload("string", <<>>) }
ConfigTypes == {"fingerprints", "providers", "other"}

\* the number of requests of a run
MaxRequests == 3

Answer(status, body) == [status |-> status, body |-> body]
ErrorBody(message) == [kind |-> "error", error |-> message, data |-> <<>>, entries |-> 0]
DataBody(data) == [kind |-> "data", error |-> "", data |-> data, entries |-> 0]
SuccessBody(n) == [kind |-> "success", error |-> "", data |-> <<>>, entries |-> n]

ERR_INVALID_TYPE == "Invalid type. Use ?type=fingerprints or ?type=providers"
ERR_INVALID_DATA == "Invalid data format"
ERR_NOT_JSON == "Unexpected end of JSON input"
ERR_NOT_LISTS == "values.map is not a function"
ERR_NOT_NAMES == "value.replace is not a function"
ERR_WRITE == "EACCES: permission denied"
ERR_WRITE_FULL == "ENOSPC: no space left on device"

\* fs.writeFile opens the file for writing, which truncates it, then writes: it
\* can reject at the open, the file as it was, or at the write, the file empty
WriteFailures(was) ==
    { [left |-> was, error |-> ERR_WRITE], [left |-> "", error |-> ERR_WRITE_FULL] }

served(method, type, payload, answer) ==
    Append(requests, [method |-> method, type |-> type, payload |-> payload,
                      status |-> answer.status, body |-> answer.body])

\* GET /api/config?type=...
getAnswer(type) ==
    IF type = "fingerprints" THEN Answer(200, DataBody(FINGERPRINTS))
    ELSE IF type = "providers" THEN Answer(200, DataBody(PROVIDER_MAP))
    ELSE Answer(400, ErrorBody(ERR_INVALID_TYPE))

\* PUT /api/config?type=... up to the write: the answer when there is none to
\* make, or the file to write and its content
putPlan(type, payload) ==
    IF payload.shape \in {"null", "string"}
    THEN [write |-> "", content |-> "", answer |-> Answer(400, ErrorBody(ERR_INVALID_DATA))]
    ELSE IF type = "fingerprints"
    THEN IF payload.shape # "lists"
         THEN [write |-> "", content |-> "", answer |-> Answer(500, ErrorBody(ERR_NOT_LISTS))]
         ELSE [write |-> "fingerprints",
               content |-> generateFingerprintTs(payload.entries),
               answer |-> Answer(200, SuccessBody(Len(payload.entries)))]
    ELSE IF type = "providers"
    THEN IF payload.shape # "names"
         THEN [write |-> "", content |-> "", answer |-> Answer(500, ErrorBody(ERR_NOT_NAMES))]
         ELSE [write |-> "providers",
               content |-> generateProviderTs(payload.entries),
               answer |-> Answer(200, SuccessBody(Len(payload.entries)))]
    ELSE [write |-> "", content |-> "", answer |-> Answer(400, ErrorBody(ERR_INVALID_TYPE))]

ConfigInit ==
    /\ CatalogsStock
    /\ ScanIdle /\ SubmitIdle /\ StreamIdle /\ ConfigIdle

GetConfig ==
    /\ Len(requests) < MaxRequests
    /\ \E type \in ConfigTypes :
          requests' = served("GET", type, MapPayload("null", <<>>), getAnswer(type))
    /\ UNCHANGED <<files, catalogVars, scanVars, submitVars, streamVars>>

\* PUT whose body is read and whose file, if any, is written
PutConfig ==
    /\ Len(requests) < MaxRequests
    /\ \E type \in ConfigTypes, payload \in Payloads :
          LET plan == putPlan(type, payload)
          IN  /\ files' = IF plan.write = "" THEN files
                          ELSE [files EXCEPT ![plan.write] = plan.content]
              /\ requests' = served("PUT", type, payload, plan.answer)
    /\ UNCHANGED <<catalogVars, scanVars, submitVars, streamVars>>

\* PUT whose body is not JSON: request.json() rejects
PutNotJson ==
    /\ Len(requests) < MaxRequests
    /\ \E type \in ConfigTypes :
          requests' = served("PUT", type, MapPayload("null", <<>>),
                             Answer(500, ErrorBody(ERR_NOT_JSON)))
    /\ UNCHANGED <<files, catalogVars, scanVars, submitVars, streamVars>>

\* PUT whose fs.writeFile rejects
PutWriteFails ==
    /\ Len(requests) < MaxRequests
    /\ \E type \in ConfigTypes, payload \in Payloads :
          LET plan == putPlan(type, payload)
          IN  /\ plan.write # ""
              /\ \E failure \in WriteFailures(files[plan.write]) :
                    /\ files' = [files EXCEPT ![plan.write] = failure.left]
                    /\ requests' = served("PUT", type, payload,
                                         Answer(500, ErrorBody(failure.error)))
    /\ UNCHANGED <<catalogVars, scanVars, submitVars, streamVars>>

ConfigNext ==
    \/ GetConfig
    \/ PutConfig
    \/ PutNotJson
    \/ PutWriteFails

ConfigSpec == ConfigInit /\ [][ConfigNext]_vars

(***************************************************************************)
(* The response stream of a scan and the loop of handleScan that reads it. *)
(* `stream` is the text of the response not read yet; a read takes any     *)
(* non-empty piece of its front.                                           *)
(***************************************************************************)
\* the number of hostnames of a streamed scan
MaxEvents == 2

\* msg.total of an event that has none
NoTotal == 0 - 1

InitEvent(n) == [type |-> "init", index |-> 0, total |-> n, data |-> ""]
ResultEvent(i) == [type |-> "result", index |-> i, total |-> NoTotal, data |-> hostLine(i + 1)]
ErrorEvent(i) == [type |-> "error", index |-> i, total |-> NoTotal, data |-> ""]

\* the line of an event
stringify(e) ==
    IF e.type = "init"
    THEN "{\"type\":\"init\",\"total\":" \o ToString(e.total) \o "}"
    ELSE IF e.type = "result"
    THEN "{\"type\":\"result\",\"index\":" \o ToString(e.index)
             \o ",\"data\":{\"subdomain\":\"" \o e.data \o "\"}}"
    ELSE "{\"type\":\"error\",\"index\":" \o ToString(e.index) \o "}"

\* the events of a scan of n hostnames in every order of completion, each
\* hostname ending in a result or in an error
EventSeqs(n) ==
    { [ k \in 1..n |-> IF kind[order[k]] = "result" THEN ResultEvent(order[k])
                       ELSE ErrorEvent(order[k]) ] :
        order \in { f \in [1..n -> 0..(n - 1)] : \A a, b \in 1..n : f[a] = f[b] => a = b },
        kind \in [0..(n - 1) -> {"result", "error"}] }

\* a line of the body that is no event: the text is blank or is no JSON
StrayLine(text) == [type |-> "stray", index |-> 0, total |-> NoTotal, data |-> text]
StrayTexts == {"{\"type\":\"resu", " "}

lineOf(item) == IF item.type = "stray" THEN item.data ELSE stringify(item)

insertAt(items, p, item) ==
    SubSeq(items, 1, p - 1) \o <<item>> \o SubSeq(items, p, Len(items))

\* the bodies of a scan of n hostnames: the init event and the events of the
\* hostnames in every order of completion; and, with the events in the order
\* the hostnames were submitted, one stray line at any place
StreamBodies(n) ==
    LET inOrder == { events \in EventSeqs(n) : \A k \in 1..n : events[k].index = k - 1 }
    IN       { <<InitEvent(n)>> \o events : events \in EventSeqs(n) }
        \cup { insertAt(<<InitEvent(n)>> \o events, p, StrayLine(text)) :
                   events \in inOrder, p \in 1..(n + 2), text \in StrayTexts }

streamText(items) ==
    join([ k \in 1..Len(items) |-> lineOf(items[k]) ], "\n") \o "\n"

Events ==
    UNION { {InitEvent(n)} \cup { ResultEvent(i) : i \in 0..(n - 1) }
                           \cup { ErrorEvent(i) : i \in 0..(n - 1) } : n \in 1..MaxEvents }

\* JSON.parse(line): the event the line is the text of, or a SyntaxError
EventOf ==
    [ t \in { stringify(e) : e \in Events } |-> CHOOSE e \in Events : stringify(e) = t ]

parseEvent(line) ==
    LET t == trim(line)
    IN  IF t \in DOMAIN EventOf
        THEN [ok |-> TRUE, msg |-> EventOf[t]]
        ELSE [ok |-> FALSE, msg |-> InitEvent(0)]

Progress(current, total) == [isNull |-> FALSE, current |-> current, total |-> total]

\* the body of `for (const line of lines)` on the dashboard's state
applyLine(ui, line) ==
    IF trim(line) = "" THEN ui
    ELSE LET parsed == parseEvent(line)
             msg == parsed.msg
         IN  IF ~parsed.ok THEN ui
             ELSE IF msg.type = "init"
             THEN [ui EXCEPT !.progress = Progress(0, msg.total)]
             ELSE IF msg.type = "result"
             THEN [results |-> Append(ui.results, msg.data),
                   progress |-> IF ~ui.progress.isNull
                                THEN Progress(msg.index + 1, ui.progress.total)
                                ELSE Progress(msg.index + 1, msg.total)]
             ELSE IF msg.type = "error"
             THEN [ui EXCEPT !.progress =
                       IF ~ui.progress.isNull
                       THEN Progress(msg.index + 1, ui.progress.total)
                       ELSE NoProgress]
             ELSE ui

RECURSIVE applyLines(_, _)
applyLines(ui, lines) ==
    IF lines = <<>> THEN ui
    ELSE applyLines(applyLine(ui, Head(lines)), Tail(lines))

ERR_READ == "network error"

\* handleScan at `await reader.read()` with the whole response on its way
StreamInit ==
    /\ CatalogsStock /\ ScanIdle /\ ConfigIdle
    /\ \E n \in 1..MaxEvents :
          /\ textInput = batchText(n)
          /\ domains = [ i \in 1..n |-> hostLine(i) ]
          /\ scanned = n
          /\ \E items \in StreamBodies(n) :
                /\ sent = items
                /\ stream = streamText(items)
    /\ phase = "closed"
    /\ awaiting = "read"
    /\ apiResponse = [received |-> TRUE, ok |-> TRUE, status |-> 200, error |-> ""]
    /\ uiError = ""
    /\ isScanning = TRUE
    /\ buffer = ""
    /\ progress = NoProgress
    /\ results = <<>>

\* a slip: the piece after the last line feed is not kept for the next read
readLines_dropsPartial(ui, lines) ==
    [ui |-> applyLines(ui, SubSeq(lines, 1, Len(lines) - 1)), buffer |-> ""]

\* the loop body after the split: the last piece is kept as the buffer and
\* the lines before it are applied in order
readLines(ui, lines) ==
    [ui |-> applyLines(ui, SubSeq(lines, 1, Len(lines) - 1)), buffer |-> lines[Len(lines)]]

\* one turn of the loop: a read that brings a chunk
StreamRead ==
    /\ awaiting = "read"
    /\ \E n \in 1..Len(stream) :
          \E turn \in { readLines([results |-> results, progress |-> progress],
                                  split(buffer \o SubSeq(stream, 1, n), "\n")) } :
              /\ stream' = IF n = Len(stream) THEN "" ELSE SubSeq(stream, n + 1, Len(stream))
              /\ buffer' = turn.buffer
              /\ results' = turn.ui.results
              /\ progress' = turn.ui.progress
    /\ UNCHANGED sent
    /\ UNCHANGED <<submitVars, catalogVars, scanVars, configVars>>

\* the read that reports done: break, then the finally block
StreamEnd ==
    /\ awaiting = "read"
    /\ stream = ""
    /\ awaiting' = "returned"
    /\ isScanning' = FALSE
    /\ UNCHANGED <<textInput, domains, phase, apiResponse, scanned, uiError>>
    /\ UNCHANGED <<streamVars, catalogVars, scanVars, configVars>>

\* a read that rejects: catch and finally blocks
StreamFails ==
    /\ awaiting = "read"
    /\ uiError' = ERR_READ
    /\ awaiting' = "returned"
    /\ isScanning' = FALSE
    /\ UNCHANGED <<textInput, domains, phase, apiResponse, scanned>>
    /\ UNCHANGED <<streamVars, catalogVars, scanVars, configVars>>

StreamNext ==
    \/ StreamRead
    \/ StreamEnd
    \/ StreamFails

StreamSpec == StreamInit /\ [][StreamNext]_vars


(***************************************************************************)
(* Properties.  `scan` holds the returned ScanResult once scan.done; the   *)
(* signals it was derived from are dns, probe, scan.provider and           *)
(* scan.fingerprint.  A catalog key "occurs in" a name when the            *)
(* lower-cased name contains the key as written, the comparison            *)
(* identifyProvider and checkFingerprint make.                             *)
(***************************************************************************)
Returned == pc = "done" /\ scan.done

occursIn(key, name) == includes(toLowerCase(name), key)

\* the name of a host compared as DNS compares names
hostName(name) == stripTrailingDot(toLowerCase(name))

realSignature(sig) == sig \notin {"", SENTINEL_NONE, SENTINEL_PROTECTED}

\* the conditions of the rules 1-12 of the classifier, on the signals of a scan
RuleHolds(n, dnsStatus, code, sig, provider, name) ==
    LET third == provider # UNKNOWN_PROVIDER
        broken == code = 0 \/ code >= 400
        hasFp == realSignature(sig)
    IN  CASE n = 1 -> hostName(name) \in {"google.com", "www.google.com", "maps.google.com"}
          [] n = 2 -> ~third /\ includes(hostName(name), "google.com")
          [] n = 3 -> FALSE
          [] n = 4 -> dnsStatus = "CNAME" /\ broken /\ ~third
          [] n = 5 -> dnsStatus = "A" /\ broken /\ ~third
          [] n = 6 -> third /\ broken /\ hasFp
          [] n = 7 -> third /\ code = 200 /\ hasFp
          [] n = 8 -> third /\ broken
          [] n = 9 -> ~third /\ hasFp /\ broken
          [] n = 10 -> dnsStatus = "NXDOMAIN"
          [] n = 11 -> dnsStatus \in {"CNAME", "A"} /\ code = 200
          [] n = 12 -> TRUE

RuleVerdict(n) ==
    CASE n = 1 -> Verdict("LOW", "Pointed to Google Main (Safe/Not Exploitable)")
      [] n = 2 -> Verdict("LOW", "Pointed to Generic Google (Safe)")
      [] n = 4 -> Verdict("MEDIUM", "DNS Hygiene: Self-Pointing or Misconfigured CNAME (Low Likelihood, Some Potential)")
      [] n = 5 -> Verdict("MEDIUM", "DNS Hygiene: Misconfigured/Dead A Record (Low Likelihood, Some Potential)")
      [] n = 6 -> Verdict("CRITICAL", "Confirmed Subdomain Takeover (All 3 Conditions Met)")
      [] n = 7 -> Verdict("CRITICAL", "Subdomain Takeover (Service Responding 200 with Fingerprint)")
      [] n = 8 -> Verdict("HIGH", "Dangling Pointer to 3rd Party (No Fingerprint)")
      [] n = 9 -> Verdict("HIGH", "Suspicious Content (Fingerprint Found but Provider Unknown)")
      [] n = 10 -> Verdict("LOW", "No DNS Record - Not Exploitable")
      [] n = 11 -> Verdict("INFO", "Active Subdomain - Verify Ownership")
      [] n = 12 -> Verdict("INFO", "Orphaned or Misconfigured Subdomain")

ScanRuleHolds(n) ==
    RuleHolds(n, scan.dnsStatus, probe.status, scan.fingerprint, scan.provider, scan.cname)

FirstRule == CHOOSE n \in 1..12 : ScanRuleHolds(n) /\ \A m \in 1..(n - 1) : ~ScanRuleHolds(m)

\* C1: the verdict of a scan is the level and label of the first of the rules
\* 1-12, in their listed order, whose condition holds of the scan's signals;
\* a later rule never decides when an earlier rule's condition is true.
C1_FirstRuleWins ==
    Returned =>
        /\ scan.riskLevel = RuleVerdict(FirstRule).riskLevel
        /\ scan.riskLabel = RuleVerdict(FirstRule).riskLabel

\* a scan whose signals satisfy rule 6 and the later rules 8 and 10
C1_Witness ==
    /\ Returned
    /\ FirstRule = 6
    /\ ScanRuleHolds(8)
    /\ ScanRuleHolds(10)
    /\ scan.riskLevel = "CRITICAL"

\* the Provider Catalog key that recognises a name: the first that occurs in it
providerKeyOf(name) ==
    LET hit(e) == occursIn(e.key, name)
    IN  FirstIndex({ix \in DOMAIN PROVIDER_MAP : hit(PROVIDER_MAP[ix])})

\* the Fingerprint Catalog entry that scopes a name: the first whose key occurs
fingerprintKeyOf(name) ==
    LET hit(e) == occursIn(e.key, name)
    IN  FirstIndex({ix \in DOMAIN FINGERPRINTS : hit(FINGERPRINTS[ix])})

\* the signatures the Fingerprint Catalog lists under a key
signaturesUnder(key) ==
    LET same(e) == e.key = key
        i == FirstIndex({ix \in DOMAIN FINGERPRINTS : same(FINGERPRINTS[ix])})
    IN  IF i > 0 THEN { FINGERPRINTS[i].signatures[j] : j \in 1..Len(FINGERPRINTS[i].signatures) }
        ELSE {}

\* the case of C2: CNAME to a name a provider key recognises, HTTP 404, and a
\* body containing a signature listed under that provider's key
TakeoverScenario ==
    /\ Returned
    /\ dns.dnsStatus = "CNAME"
    /\ probe.status = 404
    /\ providerKeyOf(dns.cnameTarget) > 0
    /\ \E sig \in signaturesUnder(PROVIDER_MAP[providerKeyOf(dns.cnameTarget)].key) :
           includes(probe.body, sig)

ConfirmedTakeover ==
    /\ scan.riskLevel = "CRITICAL"
    /\ scan.riskLabel = "Confirmed Subdomain Takeover (All 3 Conditions Met)"
    /\ scan.securityIssue = "Subdomain Takeover"

ScopedToProvider ==
    LET k == PROVIDER_MAP[providerKeyOf(dns.cnameTarget)].key
        f == fingerprintKeyOf(dns.cnameTarget)
        sigs == FINGERPRINTS[f].signatures
        hit(sig) == includes(probe.body, sig)
    IN  /\ f > 0
        /\ FINGERPRINTS[f].key = k
        /\ realSignature(sigs[FirstIndex({ix \in DOMAIN sigs : hit(sigs[ix])})])

NoDnsRecord ==
    /\ scan.riskLevel = "LOW"
    /\ scan.riskLabel = "No DNS Record - Not Exploitable"
    /\ scan.securityIssue = "None - NXDOMAIN"

\* C3 as stated: a scan whose resolution is NXDOMAIN is LOW / No DNS Record -
\* Not Exploitable / None - NXDOMAIN whatever the hostname and the probe.
C3_AnyHostname == (Returned /\ dns.dnsStatus = "NXDOMAIN") => NoDnsRecord

\* an earlier rule of the classifier takes a NXDOMAIN scan
NxdomainPreempted ==
    \/ hostName(subdomain) \in GOOGLE_MAIN
    \/ scan.provider = UNKNOWN_PROVIDER /\ includes(hostName(subdomain), "google.com")
    \/ scan.provider # UNKNOWN_PROVIDER /\ (probe.status = 0 \/ probe.status >= 400)
    \/ scan.provider # UNKNOWN_PROVIDER /\ probe.status = 200 /\ realSignature(scan.fingerprint)
    \/ scan.provider = UNKNOWN_PROVIDER /\ realSignature(scan.fingerprint)
          /\ (probe.status = 0 \/ probe.status >= 400)

\* C3 amended: a NXDOMAIN scan is LOW / No DNS Record - Not Exploitable / None -
\* NXDOMAIN unless the hostname itself is a Google name, or lies in a
\* recognised provider's domain with a broken response or a 200 response
\* carrying a signature, or an unrecognised one got a broken response carrying
\* a signature.
C3_UnlessPreempted ==
    (Returned /\ dns.dnsStatus = "NXDOMAIN" /\ ~NxdomainPreempted) => NoDnsRecord

\* NXDOMAIN although the probe got a 200 answer, and still LOW
C3_Witness ==
    /\ Returned
    /\ dns.dnsStatus = "NXDOMAIN"
    /\ ~NxdomainPreempted
    /\ probe.status = 200
    /\ NoDnsRecord

\* C4: a hostname resolving by A record to an address no Provider Catalog key
\* occurs in, probed with HTTP 200, is INFO / Active Subdomain - Verify
\* Ownership whatever the body contains.
C4_ActiveSubdomain ==
    (/\ Returned
     /\ dns.dnsStatus = "A"
     /\ dns.cnameTarget # ""
     /\ providerKeyOf(dns.cnameTarget) = 0
     /\ probe.status = 200)
        => /\ scan.riskLevel = "INFO"
           /\ scan.riskLabel = "Active Subdomain - Verify Ownership"

\* such a scan whose body carries a catalog signature
C4_Witness ==
    /\ Returned
    /\ dns.dnsStatus = "A"
    /\ providerKeyOf(dns.cnameTarget) = 0
    /\ probe.status = 200
    /\ scan.isVulnerable
    /\ scan.riskLevel = "INFO"


\* the signatures of an entry that a body contains
hitsIn(e, body) == { j \in 1..Len(e.signatures) : includes(body, e.signatures[j]) }

FirstHitEntry ==
    LET any(e) == hitsIn(e, probe.body) # {}
    IN  FirstIndex({ix \in DOMAIN FINGERPRINTS : any(FINGERPRINTS[ix])})

FirstHitSignature ==
    LET e == FINGERPRINTS[FirstHitEntry]
        j == CHOOSE j \in hitsIn(e, probe.body) : \A h \in hitsIn(e, probe.body) : j <= h
    IN  e.signatures[j]

Annotated(sig, who) == sig \o " (matched " \o who \o ")"

\* the display names the Provider Catalog gives under a key
namesUnder(key) == { PROVIDER_MAP[i].name : i \in { j \in 1..Len(PROVIDER_MAP) : PROVIDER_MAP[j].key = key } }

\* C6 as stated: with no Fingerprint Catalog key in the target, a body with a
\* catalog signature gives isVulnerable = true and the first hit annotated with
\* the display name of the owning provider; a body without one gives
\* isVulnerable = false and 'No known signature'.
C6_AnnotatedByDisplayName ==
    (Returned /\ fingerprintKeyOf(scan.cname) = 0) =>
        IF FirstHitEntry > 0
        THEN /\ scan.isVulnerable
             /\ \E n \in namesUnder(FINGERPRINTS[FirstHitEntry].key) :
                    scan.fingerprint = Annotated(FirstHitSignature, n)
        ELSE /\ ~scan.isVulnerable
             /\ scan.fingerprint = SENTINEL_NONE

\* C6 amended: the annotation is the display name the Provider Catalog gives
\* under the owning entry's key and, when it gives none or an empty one, that
\* key itself.
C6_AnnotatedByNameOrKey ==
    (Returned /\ fingerprintKeyOf(scan.cname) = 0) =>
        IF FirstHitEntry > 0
        THEN LET key == FINGERPRINTS[FirstHitEntry].key
                 who == IF namesUnder(key) \ {""} # {}
                        THEN CHOOSE n \in namesUnder(key) \ {""} : TRUE
                        ELSE key
             IN  /\ scan.isVulnerable
                 /\ scan.fingerprint = Annotated(FirstHitSignature, who)
        ELSE /\ ~scan.isVulnerable
             /\ scan.fingerprint = SENTINEL_NONE

\* a fallback hit on the second entry of the catalog, annotated with its name
C6_Witness ==
    /\ Returned
    /\ fingerprintKeyOf(scan.cname) = 0
    /\ FirstHitEntry = 2
    /\ FirstHitSignature = SIG_BUCKET
    /\ scan.fingerprint = Annotated(SIG_BUCKET, "AWS S3")

DnsPcs == {"dns_cname", "dns_check", "dns_a"}

\* a primary query that failed: rejected, timed out, or answered with JSON the
\* code cannot read
PrimaryFailure(i) ==
    /\ fetches[i].role = "primary"
    /\ fetches[i].fate \in {"error", "timeout", "malformed"}

\* C7: whatever the two primary queries do, dnsLookup returns an outcome with
\* dnsStatus CNAME, A or NXDOMAIN; a failed primary query gives NXDOMAIN with an
\* empty target and a trail text containing the error's message.
C7_LookupNeverThrows ==
    /\ pc \notin DnsPcs => dns.dnsStatus \in {"CNAME", "A", "NXDOMAIN"}
    /\ \A i \in 1..Len(fetches) :
          PrimaryFailure(i) =>
              /\ pc \notin DnsPcs
              /\ dns.dnsStatus = "NXDOMAIN"
              /\ dns.cnameTarget = ""
              /\ fetches[i].err # ""
              /\ includes(dns.dnsLookupText, fetches[i].err)

\* the A query of the hostname timed out after the CNAME query found nothing
C7_Witness ==
    /\ pc \notin DnsPcs
    /\ Len(fetches) >= 2
    /\ PrimaryFailure(2)
    /\ fetches[2].fate = "timeout"
    /\ dns.dnsLookupText = "DNS Error: " \o ERR_TIMEOUT

\* the attempts of httpProbe, in the order made
attempts == SelectSeq(fetches, LAMBDA f : f.role = "probe")
failed(f) == f.fate \in {"error", "timeout", "bodyError"}

\* C8 as stated: https is attempted first, and http is attempted if and only if
\* the https attempt failed, a timeout included.
C8_HttpIffHttpsFailed ==
    Len(attempts) > 0 =>
        /\ attempts[1].q = "https"
        /\ Len(attempts) <= 2
        /\ Len(attempts) = 2 <=> failed(attempts[1])
        /\ Len(attempts) = 2 => attempts[2].q = "http"

\* C8 amended: https is attempted first, and http is attempted if and only if
\* the https attempt failed otherwise than by its timeout; a timeout of the
\* https attempt ends the probe.
C8_HttpIffHttpsError ==
    Len(attempts) > 0 =>
        /\ attempts[1].q = "https"
        /\ Len(attempts) <= 2
        /\ Len(attempts) = 2 <=> attempts[1].fate \in {"error", "bodyError"}
        /\ Len(attempts) = 2 => attempts[2].q = "http"
        /\ attempts[1].fate = "timeout" => pc \in {"classify", "done"}

\* the https attempt broke while its body was read and the http attempt answered
C8_Witness ==
    /\ Returned
    /\ Len(attempts) = 2
    /\ attempts[1].fate = "bodyError"
    /\ attempts[2].fate = "response"

\* C9: in the outcome httpProbe returns, an error kind of Timeout or Connection
\* Failed comes with status 0 and an empty body, and a status above 0 comes
\* with no error kind.
C9_OutcomeConsistent ==
    pc \in {"classify", "done"} =>
        /\ probe.error \in {"Timeout", "Connection Failed"} =>
              probe.status = 0 /\ probe.body = ""
        /\ probe.status > 0 => probe.error = ""

\* C10: every httpProbe call returns, given that armed timers fire.
C10_ProbeReturns == (pc = "http_fetch") ~> (pc \in {"classify", "done"})


\* the DNS queries of the fetch log, in the order issued
dnsQueries == SelectSeq(fetches, LAMBDA f : f.role # "probe")

\* the A query for the hostname was answered with a CNAME record
CnameInsideAAnswer ==
    /\ pc \notin DnsPcs
    /\ Len(dnsQueries) >= 2
    /\ dnsQueries[2].role = "primary"
    /\ dns.dnsStatus = "CNAME"

\* C11: one scanSubdomain call issues at most two DNS queries, the CNAME query
\* and then either the A query for the CNAME target or the A query for the
\* hostname, and at most one HTTP request per scheme; no request is issued
\* twice, and a CNAME found in the A answer is followed by no further query.
C11_NoRetries ==
    /\ Len(dnsQueries) \in 1..2
    /\ dnsQueries[1] = fetches[1]
    /\ dnsQueries[1].q = "CNAME" /\ dnsQueries[1].name = subdomain
    /\ Len(dnsQueries) = 2 =>
          /\ dnsQueries[2] = fetches[2]
          /\ dnsQueries[2].q = "A"
          /\ \/ dnsQueries[2].role = "check" /\ dnsQueries[2].name = cname /\ cname # ""
             \/ dnsQueries[2].role = "primary" /\ dnsQueries[2].name = subdomain
    /\ \A s \in {"https", "http"} :
          Cardinality({ i \in 1..Len(fetches) :
                          fetches[i].role = "probe" /\ fetches[i].q = s }) <= 1
    /\ \A i, j \in 1..Len(fetches) :
          (i < j /\ fetches[i].role = fetches[j].role /\ fetches[i].name = fetches[j].name)
              => fetches[i].q # fetches[j].q
    /\ CnameInsideAAnswer => Len(dnsQueries) = 2

\* a CNAME found in the A answer, then a failed https and a failed http request
C11_Witness ==
    /\ Returned
    /\ CnameInsideAAnswer
    /\ Len(fetches) = 4
    /\ fetches[3].fate = "error"
    /\ fetches[4].fate = "error"

\* the Provider Catalog keys a name contains when letter case is ignored
keysIgnoringCase(name) ==
    { i \in 1..Len(PROVIDER_MAP) :
        includes(toLowerCase(name), toLowerCase(PROVIDER_MAP[i].key)) }

\* C12: identifyProvider returns the display name of the first Provider Catalog
\* key, in catalog order, that the target contains when the letter case of
\* both is ignored, and 'Unknown Provider' when there is none.
C12_CaseInsensitive ==
    Returned =>
        scan.provider =
            IF keysIgnoringCase(scan.cname) = {} THEN UNKNOWN_PROVIDER
            ELSE PROVIDER_MAP[FirstIndex(keysIgnoringCase(scan.cname))].name
\* the scan of another hostname that met the same resolution and probe outcomes
scanOf(h) == scanResult(h, dns, probe)

\* two scans agree on the provider match and on the fingerprint match
SameMatches(a, b) ==
    /\ a.provider = b.provider
    /\ a.isVulnerable = b.isVulnerable
    /\ a.fingerprint = b.fingerprint

SameVerdict(a, b) ==
    /\ a.riskLevel = b.riskLevel
    /\ a.riskLabel = b.riskLabel
    /\ a.securityIssue = b.securityIssue

\* C16 as stated: two scans with equal resolution outcome, probe outcome,
\* provider match and fingerprint match get the same level, label and issue,
\* whatever their hostnames.
C16_FourSignals ==
    Returned =>
        \A h \in Hostnames :
            LET other == scanOf(h)
            IN  SameMatches(other, scan) => SameVerdict(other, scan)

\* C16 amended: two scans with equal resolution outcome, probe outcome, provider
\* match, fingerprint match and effective resolved name (the resolved target,
\* or the hostname itself when there is none) get the same level, label and
\* issue.
C16_FiveSignals ==
    Returned =>
        \A h \in Hostnames :
            LET other == scanOf(h)
            IN  (SameMatches(other, scan) /\ other.cname = scan.cname)
                    => SameVerdict(other, scan)

\* www.google.com with a CNAME to a provider: rated as any other hostname is
C16_Witness ==
    /\ Returned
    /\ subdomain = "www.google.com"
    /\ dns.dnsStatus = "CNAME"
    /\ scan.riskLevel = "CRITICAL"
    /\ SameMatches(scanOf("shop.example.com"), scan)
    /\ scanOf("shop.example.com").cname = scan.cname

\* C17: in every ScanResult the issue is 'Subdomain Takeover' exactly when the
\* level is CRITICAL, 'Dangling DNS Record' exactly when it is HIGH and 'DNS
\* Hygiene Misconfiguration' exactly when it is MEDIUM; for INFO and LOW it is
\* 'None - Active Service', 'None - NXDOMAIN' or 'Potential Misconfiguration'.
C17_IssueFollowsLevel ==
    Returned =>
        /\ scan.securityIssue = "Subdomain Takeover" <=> scan.riskLevel = "CRITICAL"
        /\ scan.securityIssue = "Dangling DNS Record" <=> scan.riskLevel = "HIGH"
        /\ scan.securityIssue = "DNS Hygiene Misconfiguration" <=> scan.riskLevel = "MEDIUM"
        /\ scan.riskLevel \in {"INFO", "LOW"} =>
              scan.securityIssue \in {"None - Active Service", "None - NXDOMAIN",
                                      "Potential Misconfiguration"}
        /\ scan.riskLevel \in {"CRITICAL", "HIGH", "MEDIUM", "INFO", "LOW"}

\* a hostname without DNS record in a provider's domain: HIGH, and tagged so
C17_Witness ==
    /\ Returned
    /\ dns.dnsStatus = "NXDOMAIN"
    /\ scan.riskLevel = "HIGH"
    /\ scan.securityIssue = "Dangling DNS Record"

\* the displayed status: '0 (<reason>)' exactly when the status code is 0
DisplayedStatus ==
    IF probe.status = 0
    THEN scan.httpStatus \in {"0 (Timeout)", "0 (Connection Failed)", "0 (No Response)"}
         /\ (probe.error # "" => scan.httpStatus = "0 (" \o probe.error \o ")")
    ELSE scan.httpStatus = ToString(probe.status)

\* what follows '<provider> - ' when the fingerprint is not used
SignatureTail ==
    IF probe.status = 0 /\ probe.error # "" THEN probe.error
    ELSE IF probe.status > 0 THEN "HTTP " \o ToString(probe.status)
    ELSE "No Response"

Parsed == phase = "parsed"

QuoteChars == {"\"", "'"}
charAt(s, i) == SubSeq(s, i, i)

\* the entry a line stands for: its first comma-separated column, trimmed of
\* surrounding white space when `trimmed`, without a quote character at
\* either end, without a leading http:// or https://, without a trailing '/'
entryOf(line, trimmed) ==
    LET comma == indexOf(line, ",")
        column == IF comma = 0 THEN line ELSE SubSeq(line, 1, comma - 1)
        col == IF trimmed THEN trim(column) ELSE column
        a == IF Len(col) > 0 /\ charAt(col, 1) \in QuoteChars THEN 2 ELSE 1
        b == IF Len(col) >= a /\ charAt(col, Len(col)) \in QuoteChars
             THEN Len(col) - 1 ELSE Len(col)
        bare == IF a > b THEN "" ELSE SubSeq(col, a, b)
        host == IF Len(bare) >= 7 /\ SubSeq(bare, 1, 7) = "http://"
                THEN SubSeq(bare, 8, Len(bare))
                ELSE IF Len(bare) >= 8 /\ SubSeq(bare, 1, 8) = "https://"
                THEN SubSeq(bare, 9, Len(bare))
                ELSE bare
    IN  IF Len(host) > 0 /\ charAt(host, Len(host)) = "/"
        THEN SubSeq(host, 1, Len(host) - 1) ELSE host

\* `list` is what the text stands for: the entries of its lines other than a
\* header line, those without a '.' left out, each once, in the order of
\* their first occurrence
ListOfText(list, txt, trimmed) ==
    LET ls == splitLines(txt)
        header == includes(toLowerCase(ls[1]), "subdomain")
                     \/ includes(toLowerCase(ls[1]), "domain")
        entry(i) == entryOf(ls[i], trimmed)
        rows == { i \in 1..Len(ls) : ~(i = 1 /\ header) /\ includes(entry(i), ".") }
        firsts == { i \in rows : \A j \in rows : j < i => entry(j) # entry(i) }
    IN  /\ Len(list) = Cardinality(firsts)
        /\ \A i \in firsts : list[1 + Cardinality({ j \in firsts : j < i })] = entry(i)

\* C13 as stated: the list returned is made of the first columns of the lines
\* after a header line, with surrounding quotes, a leading http:// or https://
\* and a trailing '/' stripped, entries without a '.' discarded, duplicates
\* removed, in order of first occurrence.
C13_ParsedAsStated == Parsed => ListOfText(domains, textInput, FALSE)

\* C13 amended: as stated, each first column being trimmed of surrounding white
\* space before the quotes are stripped.
C13_ParsedTrimmed == Parsed => ListOfText(domains, textInput, TRUE)

\* a header, a URL and the same hostname between white space
C13_Witness ==
    /\ Parsed
    /\ textInput = "Subdomain\r\nhttps://foo.example.com/\r\n foo.example.com\t"
    /\ domains = <<"foo.example.com">>

\* C14: the list returned never holds two entries that are equal when letter
\* case is ignored, and each entry is written as its first occurrence in the
\* text was.
C14_CaseInsensitiveSet ==
    Parsed =>
        /\ \A i, j \in 1..Len(domains) :
              i # j => toLowerCase(domains[i]) # toLowerCase(domains[j])
        /\ LET ls == splitLines(textInput)
               spelt(d) == { i \in 1..Len(ls) :
                               toLowerCase(entryOf(ls[i], TRUE)) = toLowerCase(d) }
           IN  \A k \in 1..Len(domains) :
                  entryOf(ls[FirstIndex(spelt(domains[k]))], TRUE) = domains[k]

BatchInvalid == Len(domains) = 0 \/ Len(domains) > MAX_BATCH
Answered == phase \in {"rejected", "streaming", "closed"}

\* C15: a submission that parses to no hostname or to more than 100 is answered
\* with an error, shown by the dashboard, and none of its hostnames is scanned;
\* a submission of 1 to 100 hostnames is accepted and, when its stream is
\* closed, every hostname has been scanned.
C15_BatchLimit ==
    /\ (Answered /\ BatchInvalid) =>
          /\ phase = "rejected"
          /\ scanned = 0
          /\ apiResponse.received /\ ~apiResponse.ok
          /\ awaiting = "returned" => (uiError # "" /\ ~isScanning)
    /\ (Answered /\ ~BatchInvalid) =>
          /\ phase # "rejected"
          /\ apiResponse.received /\ apiResponse.ok
          /\ phase = "closed" => scanned = Len(domains)
    /\ scanned > 0 => (apiResponse.ok /\ scanned <= Len(domains))

\* 101 hostnames: the error of the response is on the dashboard, nothing scanned
C15_Witness ==
    /\ Len(domains) = MAX_BATCH + 1
    /\ phase = "rejected"
    /\ awaiting = "returned"
    /\ uiError = ERR_BATCH_TOO_LARGE
    /\ scanned = 0

(***************************************************************************)
(* Properties of the configuration API, on the log of requests.            *)
(***************************************************************************)
PutSucceeded(r, type) ==
    r.method = "PUT" /\ r.type = type /\ r.status = 200 /\ r.body.kind = "success"

\* C18: a GET of a type that follows a successful PUT of that type, with no
\* successful PUT of the type between them, returns exactly the mapping put.
C18_ReadsBackWhatWasWritten ==
    \A type \in {"fingerprints", "providers"} :
        \A i, j \in 1..Len(requests) :
            (/\ i < j
             /\ PutSucceeded(requests[i], type)
             /\ requests[j].method = "GET" /\ requests[j].type = type
             /\ \A k \in (i + 1)..(j - 1) : ~PutSucceeded(requests[k], type))
                => /\ requests[j].status = 200
                   /\ requests[j].body.data = requests[i].payload.entries

(***************************************************************************)
(* Properties of the stream reader.                                        *)
(***************************************************************************)
StreamEnded == awaiting = "returned" /\ uiError = "" /\ phase = "closed"

ProgressKept ==
    (~progress.isNull /\ ~progress'.isNull) => progress'.current >= progress.current

ProgressComplete ==
    StreamEnded => ~progress.isNull /\ progress.current = Len(domains)

\* C19: in whatever order the result and error events of a scan arrive after
\* the init event, the progress counter never decreases, and it equals the
\* number of hostnames when the stream ends.
C19_ProgressInAnyOrder == [][ProgressKept]_vars /\ []ProgressComplete

(***************************************************************************)
(* Properties of a scan, continued.                                        *)
(***************************************************************************)
\* every field of the result holds a value; the server header may be empty
Populated ==
    /\ scan.subdomain # "" /\ scan.cname # ""
    /\ scan.dnsStatus \in {"CNAME", "A", "NXDOMAIN"}
    /\ scan.httpStatus # "" /\ scan.provider # "" /\ scan.signature # ""
    /\ scan.dnsLookupResult # "" /\ scan.securityIssue # ""
    /\ scan.riskLevel \in {"CRITICAL", "HIGH", "MEDIUM", "INFO", "LOW"}
    /\ scan.riskLabel # ""
    /\ scan.serverHeader \in {r.server : r \in Responses} \cup {""}

\* the lookup ended on a failed primary query; the probe ended on a failed attempt
DnsFault == \E i \in 1..Len(fetches) : PrimaryFailure(i)
HttpFault == Len(attempts) > 0 /\ failed(attempts[Len(attempts)])

FaultsShown ==
    /\ DnsFault => scan.dnsStatus = "NXDOMAIN"
    /\ HttpFault => startsWith(scan.httpStatus, "0 (")

\* C21: whatever faults the DNS queries and the HTTP attempts meet, scanSubdomain
\* returns a result with every field populated, in which a DNS fault shows as
\* dnsStatus NXDOMAIN and an HTTP fault as httpStatus '0 (...)'.
C21_CompleteResult ==
    /\ pc = "done" => scan.done
    /\ Returned => Populated /\ FaultsShown

\* the CNAME records of the answer to the CNAME query, in the answer's order
cnameRecords ==
    IF fetches[1].answer.answer = "array"
    THEN SelectSeq(fetches[1].answer.items, LAMBDA a : a.type = 5)
    ELSE <<>>

\* the lookup returned after a CNAME query answered with a CNAME record
CnameAnswered ==
    /\ pc \notin DnsPcs
    /\ fetches[1].fate = "answered"
    /\ cnameRecords # <<>>
    /\ Head(cnameRecords).hasData

MARKER == "[CNAME target NXDOMAIN]"
SaidNoSuchDomain(f) ==
    f.fate = "answered" /\ f.answer.t = "object" /\ f.answer.hasStatus /\ f.answer.Status = 3

CnameReported ==
    /\ dns.dnsStatus = "CNAME"
    /\ dns.cnameTarget = stripTrailingDot(Head(cnameRecords).data)
    /\ fetches[2].role = "check" /\ fetches[2].name = dns.cnameTarget

\* C22: after a CNAME answer dnsLookup reports dnsStatus CNAME with the first
\* CNAME target, trailing dot stripped, whatever the query for the target does,
\* and the trail carries the marker exactly when that query was answered with
\* DNS status 3; its timeout or network error adds no marker.
C22_MarkerIffNoSuchDomain ==
    CnameAnswered =>
        /\ CnameReported
        /\ includes(dns.dnsLookupText, MARKER) <=> SaidNoSuchDomain(fetches[2])

(***************************************************************************)
(* The catalogs as a frame: the maps the scanner reads and the files the   *)
(* configuration API keeps them in.                                        *)
(***************************************************************************)
CatalogChanged(type) ==
    \/ files'[type] # files[type]
    \/ type = "fingerprints" /\ FINGERPRINTS' # FINGERPRINTS
    \/ type = "providers" /\ PROVIDER_MAP' # PROVIDER_MAP

Served == requests' # requests /\ Len(requests') = Len(requests) + 1

CatalogFrame ==
    \A type \in {"fingerprints", "providers"} :
        CatalogChanged(type) => Served /\ PutSucceeded(requests'[Len(requests')], type)

\* C23: no step of a scan changes a catalog; a catalog changes only in a
\* successful PUT of its own type, so a PUT of one type leaves the other
\* catalog as it was and a PUT answered 400 changes neither.
C23_OnlySuccessfulPutWrites == [][CatalogFrame]_vars

\* the fingerprint of the result is a signature found by the fallback pass
FallbackHit == includes(scan.fingerprint, " (matched ") /\ endsWith(scan.fingerprint, ")")

\* C24: whatever the two catalogs hold, a result whose fingerprint is annotated
\* '(matched <provider>)' has the provider 'Unknown Provider'.
C24_FallbackOnlyForUnknown ==
    Returned => (FallbackHit => scan.provider = UNKNOWN_PROVIDER)

(***************************************************************************)
(* Properties of the verdict.                                              *)
(***************************************************************************)
Recognized == scan.provider # UNKNOWN_PROVIDER
BrokenResponse == probe.status = 0 \/ probe.status >= 400
GoogleMainName == hostName(scan.cname) \in {"google.com", "www.google.com", "maps.google.com"}

\* C25: a result with a recognized provider and HTTP status 0 or >= 400, whose
\* resolved name is not one of the three Google main names, is CRITICAL when a
\* real signature matched and HIGH otherwise, whatever its dnsStatus.
C25_BrokenThirdPartyAtLeastHigh ==
    (Returned /\ Recognized /\ BrokenResponse /\ ~GoogleMainName) =>
        scan.riskLevel = (IF realSignature(scan.fingerprint) THEN "CRITICAL" ELSE "HIGH")

\* a hostname in a provider's domain without any DNS record, answered 404 with
\* the provider's signature
C25_Witness ==
    /\ Returned /\ Recognized /\ ~GoogleMainName
    /\ scan.dnsStatus = "NXDOMAIN"
    /\ probe.status = 404
    /\ realSignature(scan.fingerprint)
    /\ scan.riskLevel = "CRITICAL"

\* C26: a result is CRITICAL only with a recognized provider, a real matched
\* signature and HTTP status 0, >= 400 or 200; with a recognized provider, a
\* real matched signature and any other status it is INFO or LOW.
C26_CriticalNeedsAllThree ==
    Returned =>
        /\ scan.riskLevel = "CRITICAL" =>
              /\ Recognized
              /\ realSignature(scan.fingerprint)
              /\ BrokenResponse \/ probe.status = 200
        /\ (Recognized /\ realSignature(scan.fingerprint)
               /\ ~BrokenResponse /\ probe.status # 200)
              => scan.riskLevel \in {"INFO", "LOW"}

\* a provider's page answered 204 with the provider's signature in the body
C26_Witness ==
    /\ Returned /\ Recognized
    /\ realSignature(scan.fingerprint)
    /\ probe.status = 204
    /\ scan.dnsStatus = "CNAME"
    /\ scan.riskLevel = "INFO"

SuspiciousContent ==
    /\ scan.riskLevel = "HIGH"
    /\ scan.riskLabel = "Suspicious Content (Fingerprint Found but Provider Unknown)"

\* a pointer record, an unknown provider and a broken response
BrokenUnknownPointer ==
    scan.dnsStatus \in {"CNAME", "A"} /\ ~Recognized /\ BrokenResponse

\* the resolved name is a Google name: the classifier's first two rules
GoogleName == includes(hostName(scan.cname), "google.com")

\* C27 as stated: the verdict HIGH / Suspicious Content is produced only when
\* dnsStatus is NXDOMAIN; with dnsStatus CNAME or A, an unknown provider and a
\* broken response the verdict is always MEDIUM.
C27_AlwaysMedium ==
    Returned =>
        /\ SuspiciousContent => scan.dnsStatus = "NXDOMAIN"
        /\ BrokenUnknownPointer => scan.riskLevel = "MEDIUM"

\* C27 amended: the verdict HIGH / Suspicious Content is produced only when
\* dnsStatus is NXDOMAIN; with dnsStatus CNAME or A, an unknown provider and a
\* broken response the verdict is MEDIUM, whether or not a signature matched,
\* unless the resolved name contains google.com, and then it is LOW.
C27_MediumUnlessGoogle ==
    Returned =>
        /\ SuspiciousContent => scan.dnsStatus = "NXDOMAIN"
        /\ BrokenUnknownPointer =>
              scan.riskLevel = (IF GoogleName THEN "LOW" ELSE "MEDIUM")

\* an A record, an unknown provider and a 404 carrying a signature: MEDIUM
C27_Witness ==
    /\ Returned
    /\ BrokenUnknownPointer /\ ~GoogleName
    /\ scan.dnsStatus = "A"
    /\ realSignature(scan.fingerprint)
    /\ scan.riskLevel = "MEDIUM"

\* C28: in every scan the matcher's isVulnerable is true exactly when the
\* classifier's hasFingerprint test accepts its matchedSignature, for every
\* Fingerprint Catalog content the configuration interface accepts.
C28_MatcherAgreesWithClassifier ==
    Returned => (scan.isVulnerable <=> hasFingerprint(scan.fingerprint))

\* C29: in every ScanResult, securityIssue is 'None - NXDOMAIN' if and only
\* if dnsStatus is NXDOMAIN and riskLevel is LOW; a result with dnsStatus
\* NXDOMAIN is never rated MEDIUM or INFO and never tagged
\* 'None - Active Service'.
C29_NxdomainTag ==
    Returned =>
        /\ scan.securityIssue = "None - NXDOMAIN"
              <=> (scan.dnsStatus = "NXDOMAIN" /\ scan.riskLevel = "LOW")
        /\ scan.dnsStatus = "NXDOMAIN" =>
              /\ scan.riskLevel \notin {"MEDIUM", "INFO"}
              /\ scan.securityIssue # "None - Active Service"

\* a name without records that answers 200 with an unremarkable page
C29_Witness ==
    /\ Returned
    /\ scan.dnsStatus = "NXDOMAIN"
    /\ probe.status = 200
    /\ ~hasFingerprint(scan.fingerprint)
    /\ scan.riskLevel = "LOW"
    /\ scan.securityIssue = "None - NXDOMAIN"

(***************************************************************************)
(* Properties of the stream reader.  A line of the body has been read      *)
(* whole once its line feed has been read.                                 *)
(***************************************************************************)
linesRead == Len(sent) - (Len(split(stream, "\n")) - 1)

\* the events among the lines read whole, in the order they were written
eventsRead ==
    SelectSeq(SubSeq(sent, 1, linesRead), LAMBDA item : item.type # "stray")

\* the data of the result events read, one entry each, in stream order
resultsDue ==
    LET got == SelectSeq(eventsRead, LAMBDA e : e.type = "result")
    IN  [ k \in 1..Len(got) |-> got[k].data ]

\* the progress the events read leave, applied once each in stream order
progressDue ==
    IF eventsRead = <<>> THEN NoProgress
    ELSE LET last == eventsRead[Len(eventsRead)]
         IN  IF last.type = "init" THEN Progress(0, last.total)
             ELSE Progress(last.index + 1, eventsRead[1].total)

\* C30: however the bytes of a body of newline-terminated lines are split
\* into reads, every init, result and error event read so far has been
\* applied exactly once and in stream order: results holds one entry per
\* result event and progress is what the last event left; a malformed or
\* blank line changes nothing and no other event is lost or applied twice.
C30_EveryChunking ==
    /\ results = resultsDue
    /\ progress = progressDue
    /\ (stream = "" => buffer = "" /\ linesRead = Len(sent))

\* a malformed line was read, the result event behind it was applied, and the
\* last read ended inside the line after that
C30_Witness ==
    /\ awaiting = "read"
    /\ buffer # "" /\ stream # ""
    /\ \E p \in 1..linesRead - 1 :
          /\ sent[p].type = "stray" /\ trim(sent[p].data) # ""
          /\ sent[p + 1].type = "result"
          /\ results # <<>> /\ results[Len(results)] = sent[p + 1].data
=============================================================================
